---- MODULE Spec2Model ----
(***************************************************************************)
(* Ingestion pipeline of the WebAI backend.                                *)
(*                                                                         *)
(* Part I   BackgroundTaskManager (app/services/background_tasks.py) with  *)
(*          the CheckpointManager and ProgressTracker records it writes.   *)
(*          Every coroutine (an API call or an asyncio task running        *)
(*          _process_task) is cut at its await points: one step runs the   *)
(*          synchronous code after the await it is suspended at and issues *)
(*          the next awaited operation, whose effect on Redis or on the    *)
(*          vector store is applied in that same step.  pc names the       *)
(*          operation the coroutine is suspended at.                       *)
(*          Redis is taken as the asyncio client the awaits are written    *)
(*          for.  What ingestion meets (success, a recoverable error, a    *)
(*          fatal error) is chosen by the environment.                     *)
(* Part II  VoyageBatchManager (app/services/batch_manager.py).            *)
(* Part III RobustVoyageEmbedder.embed_with_retry (app/services/           *)
(*          embeddings.py); what the provider answers is chosen by the     *)
(*          environment among the errors of MockFailureSimulator           *)
(*          (test_recovery_error_handling.py) and success.                 *)
(* Part IV  the failed-batch records of the CheckpointManager              *)
(*          (app/services/checkpoint_manager.py 172-309), one step a call. *)
(* Part V   the counters of ingest_json_file_streaming                     *)
(*          (app/services/rag_ingest.py) and what _process_task stores     *)
(*          from its result; Milvus chooses every inserted_count.          *)
(* Part VI  ProgressTracker (app/services/progress_tracker.py), one step a *)
(*          call, with a clock for update_interval.                        *)
(* Part VII StreamingJSONProcessor._stream_ndjson and _read_lines          *)
(*          (app/services/streaming_parser.py) over a file of characters.  *)
(* Part VIII the chunking functions (streaming_parser.py 334-387 and       *)
(*          chunk_text of app/api/routes/rag.py).                          *)
(* Part IX  RateLimitedBatchProcessor.acquire_rate_limit                   *)
(*          (app/services/batch_manager.py).                               *)
(* Part X   validation of uploaded objects by the ingest routes            *)
(*          (app/api/routes/rag.py).                                       *)
(*                                                                         *)
(* Spec          one job under start, pause, resume and cancel, failing    *)
(*               ingestion, checkpoint cleanup                             *)
(* SpecCapacity  two jobs and a pool of max_concurrent_tasks               *)
(* SpecRetry     jobs left to themselves, ingestion failing without bound  *)
(* SpecBatch     one VoyageBatchManager fed with texts                     *)
(* SpecEmbed     one call of embed_with_retry                              *)
(* SpecFailed    the failed-batch records of the CheckpointManager         *)
(* SpecIngest    one run of ingest_json_file_streaming                     *)
(* SpecTracker   the progress statistics of one task                       *)
(* SpecParser    one NDJSON stream read to its end                         *)
(* SpecQueue     SpecCapacity with every coroutine resumed in the end      *)
(* SpecShutdown  two jobs, a pool of one, and shutdown()                   *)
(* SpecChunk     one call of a chunking function                           *)
(* SpecLimiter   callers of acquire_rate_limit                             *)
(* SpecUpload    one file through /rag/ingest-file or the async job        *)
(***************************************************************************)
EXTENDS Integers, Sequences, FiniteSets, TLC

\* ---------------------------------------------------------------- bounds
NJobs == 2
MaxExec == 2
MaxCalls == 1
NBatches == 1
max_concurrent_tasks == 1
MaxTransient == 1       \* recoverable ingestion errors met by one execution
TOKEN_LIMIT == 4        \* config["token_limit"] (batch_manager 84-86)
CHUNK_LIMIT == 2        \* config["chunk_limit"]
HARD_TOKEN_LIMIT == 5   \* the provider's 10000 tokens a request, scaled as TOKEN_LIMIT is
HARD_CHUNK_LIMIT == 3   \* the provider's 1000 texts a request
MaxTextTokens == 6      \* token count of the longest text
MaxTexts == 4           \* add_item calls on one manager
MaxClock == 1           \* int(time.time()) runs over 0..MaxClock
MaxSaves == 3           \* save_failed_batch calls
MaxBatchRetries == 2    \* the max_retries argument of retry_failed_batch
MaxItems == 5           \* items of the file handed to ingest_json_file_streaming
ingest_batch_size == 2  \* its batch_size argument
MaxNow == 3             \* the tracker's time.time() runs over 0..MaxNow
update_interval == 2    \* ProgressTracker.update_interval, in clock ticks
MaxExpected == 2        \* total_items_expected and items_processed of the tracker
MaxPhases == 2          \* update_phase calls between two start_tracking calls
MaxTrackings == 2       \* start_tracking calls for one task
MaxFileLen == 5         \* characters of the NDJSON file
chunk_size == 2         \* characters read at a time by _read_lines

\* ------------------------------------------------------ program constants
max_retries == 3
embedder_max_retries == 3       \* RobustVoyageEmbedder.max_retries
batch_size == 100
checkpoint_interval == 100

Jobs == 1..NJobs
Execs == 1..MaxExec
Calls == 1..MaxCalls

VARIABLES
    rec,            \* Redis processing_task:{id}: status and progress.items_processed
    queue,          \* Redis list task_queue; lpush at the head, rpop at the tail
    active_tasks,   \* Redis set active_tasks
    ckpt,           \* Redis checkpoint:{id}
    prog,           \* Redis progress:{id}: total_items_processed, -1 when absent
    milvus,         \* vector store: per job, the batches of the file upserted so far
    running_tasks,  \* BackgroundTaskManager.running_tasks: job -> task handle, 0 absent
    exec,           \* the asyncio tasks created for _process_task
    call,           \* the API calls in flight
    hist,           \* history: the jobs whose record was ever stored as completed
    batcher,        \* a VoyageBatchManager, the Batch it returned last, the calls made,
                    \* the non-blank items handed in and the items of the Batches returned
    embedder,       \* one call of RobustVoyageEmbedder.embed_with_retry
    failed_batches, \* Redis failed_batch:{id} and the clock that names the ids
    phase,          \* Redis progress:{id}: current_phase, "none" when absent
    ingest,         \* one run of ingest_json_file_streaming and the counters stored from it
    tracker,        \* ProgressTracker: the statistics of one task and its clock
    parser,         \* one run of StreamingJSONProcessor._stream_ndjson
    chunker,        \* one call of a chunking function
    limiter,        \* RateLimitedBatchProcessor: request_times, the lock, callers, clock
    upload          \* one uploaded file on its way through an ingest route

taskVars == <<rec, queue, active_tasks, ckpt, prog, milvus, running_tasks, exec, call, hist, phase>>
vars == <<rec, queue, active_tasks, ckpt, prog, milvus, running_tasks, exec, call, hist, batcher,
          embedder, failed_batches, phase, ingest, tracker, parser, chunker, limiter, upload>>
pipelineVars == <<batcher, embedder, failed_batches, ingest, tracker, parser>>

\* ------------------------------------------------------------ data shapes
NoTask == [status |-> "none", items |-> 0]
TaskInfo == [status |-> "queued", items |-> 0]
NoCheckpoint == [has |-> FALSE, items |-> 0, aged |-> FALSE]
CheckpointData(items) == [has |-> TRUE, items |-> items, aged |-> FALSE]
save_checkpoint_skipped(stored, items, force) == stored
\* save_checkpoint (73-128): the checkpoint stored afterwards, given the one
\* stored before
save_checkpoint(stored, items, force) ==
    IF ~force /\ items % checkpoint_interval # 0 THEN stored ELSE CheckpointData(items)
FileItems == NBatches * batch_size

\* rc: items_processed of the checkpoint the current ingestion attempt starts
\* from (recovery_context at 363, the forced checkpoint at 456-462), -1 for none
\* err: the exception `e` the task is handling (450-470, 499-527)
FreeExec == [job |-> 0, pc |-> "free", must_cancel |-> FALSE, ti |-> NoTask,
             rc |-> -1, retry |-> 0, pos |-> 0, cnt |-> 0, popped |-> 0, err |-> "none"]
IdleCall == [op |-> "idle", job |-> 0, pc |-> "idle", ti |-> NoTask, seen |-> "none",
             ok |-> FALSE, cnt |-> 0, popped |-> 0, gathered |-> {}]

\* pc values inside the try body of _process_task, where a cancellation is
\* caught by `except asyncio.CancelledError`
BodyPcs == {"get_task", "start_tracking", "store_running", "ingest", "retry_ckpt",
            "store_completed", "del_ckpt"}
\* pc values inside the `except Exception` handler
FailPcs == {"fail_get", "fail_store", "fail_ckpt"}

InitTasks ==
    /\ rec = [j \in Jobs |-> NoTask]
    /\ queue = <<>>
    /\ active_tasks = {}
    /\ ckpt = [j \in Jobs |-> NoCheckpoint]
    /\ prog = [j \in Jobs |-> -1]
    /\ milvus = [j \in Jobs |-> {}]
    /\ running_tasks = [j \in Jobs |-> 0]
    /\ exec = [e \in Execs |-> FreeExec]
    /\ call = [c \in Calls |-> IdleCall]
    /\ hist = [ever_completed |-> [j \in Jobs |-> FALSE]]
    /\ phase = [j \in Jobs |-> "none"]

\* ------------------------------------------------------------- helpers
LenRunning == Cardinality({j \in Jobs : running_tasks[j] # 0})
HasFree == \E e \in Execs : exec[e].pc = "free"
FreeSlot == CHOOSE e \in Execs : exec[e].pc = "free" /\ \A f \in Execs : f < e => exec[f].pc # "free"
Front(s) == SubSeq(s, 1, Len(s) - 1)
Lrem(s, j) == SelectSeq(s, LAMBDA x : x # j)

\* A finished task leaves the event loop.  The tasks alive are kept in the
\* order of their creation: those created after e move down one place, and so
\* do the handles that refer to them.
TaskDone(ex, e) ==
    [i \in Execs |-> IF i < e THEN ex[i] ELSE IF i < MaxExec THEN ex[i + 1] ELSE FreeExec]
HandlesAfterDone(e) ==
    [j \in Jobs |-> IF running_tasks[j] > e THEN running_tasks[j] - 1 ELSE running_tasks[j]]

\* task.cancel() on the handle stored for job j, then del running_tasks[j]
\* (pause_task 217-219, cancel_task 270-272).  A task that has not run yet never
\* enters the coroutine.  A task suspended in the try body next runs
\* `except asyncio.CancelledError` (494-497), which writes nothing and awaits
\* finish_tracking.  A task suspended in the `except Exception` handler gets
\* the CancelledError there, and only its finally block is left.
Cancelled(t) ==
    IF t.pc \in BodyPcs
    THEN [FreeExec EXCEPT !.job = t.job, !.pc = "cancel_finish"]
    ELSE [t EXCEPT !.must_cancel = TRUE]
CancelHandle(ex, j) ==
    IF running_tasks[j] = 0 THEN ex
    ELSE IF ex[running_tasks[j]].pc = "created" THEN TaskDone(ex, running_tasks[j])
    ELSE [ex EXCEPT ![running_tasks[j]] = Cancelled(@)]
HandlesAfterCancel(j) ==
    IF running_tasks[j] # 0 /\ exec[running_tasks[j]].pc = "created"
    THEN [HandlesAfterDone(running_tasks[j]) EXCEPT ![j] = 0]
    ELSE [running_tasks EXCEPT ![j] = 0]

PauseAllowedLoose(status) == status \in {"running", "queued"}
\* pause_task / resume_task proceed only from these stored statuses
PauseAllowed(status) == status = "running"
ResumeAllowed(status) == status = "paused"
CancelAllowed(status) == status # "none"

\* ------------------------------------------------ _process_queue (323-343)
\* The head of `while active_count < self.max_concurrent_tasks`: either rpop is
\* issued (the coroutine suspends at it holding the id it popped, 0 for none)
\* or the loop is left.
ProcessQueueHead(co, cnt) ==
    IF cnt < max_concurrent_tasks
    THEN [co EXCEPT !.pc = "pq_rpop", !.cnt = cnt,
                    !.popped = IF queue = <<>> THEN 0 ELSE queue[Len(queue)]]
    ELSE [co EXCEPT !.pc = "pq_exit", !.cnt = cnt]
QueueAfterHead(cnt) ==
    IF cnt < max_concurrent_tasks /\ queue # <<>> THEN Front(queue) ELSE queue

\* asyncio.create_task(self._process_task(task_id)); running_tasks[task_id] = task
CreateTask(ex, j) == [ex EXCEPT ![FreeSlot] = [FreeExec EXCEPT !.job = j, !.pc = "created"]]

\* ---------------------------------------------------------- API calls
Returned(co, ok) == [IdleCall EXCEPT !.op = co.op, !.job = co.job, !.seen = co.seen,
                                     !.pc = "ret", !.ok = ok]
CallAfterQueue(co) == IF co.pc = "pq_exit" THEN Returned(co, TRUE) ELSE co
LowestIdle(c) == call[c].op = "idle" /\ \A d \in Calls : d < c => call[d].op # "idle"

\* start_task (114-171) up to its first await: the record is stored
StartTask(c, j) ==
    /\ LowestIdle(c)
    /\ rec[j].status = "none"
    /\ \A i \in Jobs : i < j => rec[i].status # "none"
    /\ rec' = [rec EXCEPT ![j] = TaskInfo]
    /\ call' = [call EXCEPT ![c] = [IdleCall EXCEPT !.op = "start", !.job = j, !.pc = "st_store"]]
    /\ UNCHANGED <<queue, active_tasks, ckpt, prog, milvus, running_tasks, exec, hist, batcher, embedder, failed_batches, phase, ingest, tracker, parser, chunker, limiter, upload>>

\* pause_task / resume_task / cancel_task up to get_task_status (207, 234, 260)
Control(c, op, j) ==
    /\ LowestIdle(c)
    /\ call' = [call EXCEPT ![c] = [IdleCall EXCEPT !.op = op, !.job = j, !.pc = "get",
                                                    !.ti = rec[j], !.seen = rec[j].status]]
    /\ UNCHANGED <<rec, queue, active_tasks, ckpt, prog, milvus, running_tasks, exec, hist, batcher, embedder, failed_batches, phase, ingest, tracker, parser, chunker, limiter, upload>>

\* start_task 165 and resume_task 244: lpush
Lpush(c) ==
    /\ \/ call[c].op = "start" /\ call[c].pc = "st_store"
       \/ call[c].op = "resume" /\ call[c].pc = "store"
    /\ queue' = <<call[c].job>> \o queue
    /\ call' = [call EXCEPT ![c].pc = "lpush"]
    /\ UNCHANGED <<rec, active_tasks, ckpt, prog, milvus, running_tasks, exec, hist, batcher, embedder, failed_batches, phase, ingest, tracker, parser, chunker, limiter, upload>>

\* start_task 168 and resume_task 245: _process_queue is entered
CallEnterQueue(c) ==
    /\ call[c].pc = "lpush"
    /\ call' = [call EXCEPT ![c] = CallAfterQueue(ProcessQueueHead(@, LenRunning))]
    /\ queue' = QueueAfterHead(LenRunning)
    /\ UNCHANGED <<rec, active_tasks, ckpt, prog, milvus, running_tasks, exec, hist, batcher, embedder, failed_batches, phase, ingest, tracker, parser, chunker, limiter, upload>>

CallQueuePopped(c) ==
    /\ call[c].pc = "pq_rpop"
    /\ IF call[c].popped = 0
       THEN /\ call' = [call EXCEPT ![c] = Returned(@, TRUE)]
            /\ UNCHANGED <<exec, running_tasks, active_tasks>>
       ELSE /\ HasFree
            /\ exec' = CreateTask(exec, call[c].popped)
            /\ running_tasks' = [running_tasks EXCEPT ![call[c].popped] = FreeSlot]
            /\ active_tasks' = active_tasks \cup {call[c].popped}
            /\ call' = [call EXCEPT ![c].pc = "pq_sadd"]
    /\ UNCHANGED <<rec, queue, ckpt, prog, milvus, hist, batcher, embedder, failed_batches, phase, ingest, tracker, parser, chunker, limiter, upload>>

CallQueueNext(c) ==
    /\ call[c].pc = "pq_sadd"
    /\ call' = [call EXCEPT ![c] = CallAfterQueue(ProcessQueueHead(@, call[c].cnt + 1))]
    /\ queue' = QueueAfterHead(call[c].cnt + 1)
    /\ UNCHANGED <<rec, active_tasks, ckpt, prog, milvus, running_tasks, exec, hist, batcher, embedder, failed_batches, phase, ingest, tracker, parser, chunker, limiter, upload>>

\* pause_task 208-214
PauseDecide(c) ==
    /\ call[c].op = "pause" /\ call[c].pc = "get"
    /\ IF PauseAllowed(call[c].ti.status)
       THEN /\ rec' = [rec EXCEPT ![call[c].job] = [call[c].ti EXCEPT !.status = "paused"]]
            /\ call' = [call EXCEPT ![c].pc = "store", ![c].ti = NoTask]
       ELSE /\ call' = [call EXCEPT ![c] = Returned(@, FALSE)]
            /\ UNCHANGED rec
    /\ UNCHANGED <<queue, active_tasks, ckpt, prog, milvus, running_tasks, exec, hist, batcher, embedder, failed_batches, phase, ingest, tracker, parser, chunker, limiter, upload>>

\* pause_task 216-222
PauseCancel(c) ==
    /\ call[c].op = "pause" /\ call[c].pc = "store"
    /\ exec' = CancelHandle(exec, call[c].job)
    /\ running_tasks' = HandlesAfterCancel(call[c].job)
    /\ call' = [call EXCEPT ![c] = Returned(@, TRUE)]
    /\ UNCHANGED <<rec, queue, active_tasks, ckpt, prog, milvus, hist, batcher, embedder, failed_batches, phase, ingest, tracker, parser, chunker, limiter, upload>>

\* resume_task 235-241
ResumeDecide(c) ==
    /\ call[c].op = "resume" /\ call[c].pc = "get"
    /\ IF ResumeAllowed(call[c].ti.status)
       THEN /\ rec' = [rec EXCEPT ![call[c].job] = [call[c].ti EXCEPT !.status = "queued"]]
            /\ call' = [call EXCEPT ![c].pc = "store", ![c].ti = NoTask]
       ELSE /\ call' = [call EXCEPT ![c] = Returned(@, FALSE)]
            /\ UNCHANGED rec
    /\ UNCHANGED <<queue, active_tasks, ckpt, prog, milvus, running_tasks, exec, hist, batcher, embedder, failed_batches, phase, ingest, tracker, parser, chunker, limiter, upload>>

\* cancel_task 260-267
CancelDecide(c) ==
    /\ call[c].op = "cancel" /\ call[c].pc = "get"
    /\ IF CancelAllowed(call[c].ti.status)
       THEN /\ rec' = [rec EXCEPT ![call[c].job] = [call[c].ti EXCEPT !.status = "cancelled"]]
            /\ call' = [call EXCEPT ![c].pc = "store", ![c].ti = NoTask]
       ELSE /\ call' = [call EXCEPT ![c] = Returned(@, FALSE)]
            /\ UNCHANGED rec
    /\ UNCHANGED <<queue, active_tasks, ckpt, prog, milvus, running_tasks, exec, hist, batcher, embedder, failed_batches, phase, ingest, tracker, parser, chunker, limiter, upload>>

\* cancel_task 269-275
CancelCancel(c) ==
    /\ call[c].op = "cancel" /\ call[c].pc = "store"
    /\ exec' = CancelHandle(exec, call[c].job)
    /\ running_tasks' = HandlesAfterCancel(call[c].job)
    /\ queue' = Lrem(queue, call[c].job)
    /\ call' = [call EXCEPT ![c].pc = "lrem"]
    /\ UNCHANGED <<rec, active_tasks, ckpt, prog, milvus, hist, batcher, embedder, failed_batches, phase, ingest, tracker, parser, chunker, limiter, upload>>

\* cancel_task 277-278
CancelReturn(c) ==
    /\ call[c].op = "cancel" /\ call[c].pc = "lrem"
    /\ call' = [call EXCEPT ![c] = Returned(@, TRUE)]
    /\ UNCHANGED <<rec, queue, active_tasks, ckpt, prog, milvus, running_tasks, exec, hist, batcher, embedder, failed_batches, phase, ingest, tracker, parser, chunker, limiter, upload>>

\* the caller receives the result (control_task 711-719, ingest route 581-588)
Respond(c) ==
    /\ call[c].pc = "ret"
    /\ call' = [call EXCEPT ![c] = IdleCall]
    /\ UNCHANGED <<rec, queue, active_tasks, ckpt, prog, milvus, running_tasks, exec, hist, batcher, embedder, failed_batches, phase, ingest, tracker, parser, chunker, limiter, upload>>

\* ------------------------------------------------------ shutdown (563-576)
\* task.cancel() on every handle of running_tasks; the entries stay.  A task
\* that has not run yet is done at once and its entry, which still counts in
\* len(running_tasks), is written -1.
CancelAll(ex) ==
    [e \in Execs |->
        IF \E j \in Jobs : running_tasks[j] = e
        THEN IF ex[e].pc = "created" THEN FreeExec ELSE Cancelled(ex[e])
        ELSE ex[e]]
\* the tasks left alive, in the order of their creation
StillAlive == {e \in Execs : exec[e].pc # "free" /\ CancelAll(exec)[e].pc # "free"}
AfterCancelAll ==
    [i \in Execs |->
        IF i <= Cardinality(StillAlive)
        THEN CancelAll(exec)[CHOOSE e \in StillAlive :
                                Cardinality({f \in StillAlive : f < e}) = i - 1]
        ELSE FreeExec]

\* 565-574: the flag is set, every task is cancelled, gather is awaited
Shutdown(c) ==
    /\ LowestIdle(c)
    /\ exec' = AfterCancelAll
    /\ running_tasks' =
          [j \in Jobs |->
              IF running_tasks[j] = 0 THEN 0
              ELSE IF running_tasks[j] \in StillAlive
              THEN Cardinality({f \in StillAlive : f <= running_tasks[j]})
              ELSE -1]
    /\ call' = [call EXCEPT ![c] =
                   [IdleCall EXCEPT !.op = "shutdown", !.pc = "gather",
                                    !.gathered = {j \in Jobs : running_tasks[j] \in StillAlive}]]
    /\ UNCHANGED <<rec, queue, active_tasks, ckpt, prog, milvus, hist, batcher, embedder, failed_batches, phase, ingest, tracker, parser, chunker, limiter, upload>>

\* 573-576: gather returns once every task it was given is done
ShutdownReturn(c) ==
    /\ call[c].op = "shutdown" /\ call[c].pc = "gather"
    /\ \A j \in call[c].gathered : \A e \in Execs : exec[e].job # j
    /\ call' = [call EXCEPT ![c].pc = "down", ![c].gathered = {}]
    /\ UNCHANGED <<rec, queue, active_tasks, ckpt, prog, milvus, running_tasks, exec, hist, batcher, embedder, failed_batches, phase, ingest, tracker, parser, chunker, limiter, upload>>

\* ------------------------------------------------ _process_task (345-536)
\* ProgressTracker.update_phase (178-217) and finish_tracking (395-428), as
\* far as current_phase goes: without a stored snapshot both return False
update_phase(current_phase, new_phase) ==
    IF current_phase = "none" THEN "none" ELSE new_phase
finish_tracking(current_phase, success) ==
    IF current_phase = "none" THEN "none" ELSE IF success THEN "completed" ELSE "error"

Job(e) == exec[e].job
Runs(e, pc) == exec[e].pc = pc /\ ~exec[e].must_cancel
SetPc(e, pc) == [exec EXCEPT ![e].pc = pc]

\* the task's first step, up to get_task_status (357).  The status of the
\* copy read here is not looked at before 372 overwrites it with running, so
\* the copy is kept with the status it will be stored with.
TaskStart(e) ==
    /\ Runs(e, "created")
    /\ exec' = [exec EXCEPT ![e].pc = "get_task",
                            ![e].ti = [rec[Job(e)] EXCEPT !.status = "running"]]
    /\ UNCHANGED <<rec, queue, active_tasks, ckpt, prog, milvus, running_tasks, call, hist, batcher, embedder, failed_batches, phase, ingest, tracker, parser, chunker, limiter, upload>>

\* create_recovery_context (363) loads the checkpoint; start_tracking (366)
\* stores a fresh ProgressStatistics
StartTracking(e) ==
    /\ Runs(e, "get_task")
    /\ exec' = [exec EXCEPT ![e].pc = "start_tracking",
                            ![e].rc = IF ckpt[Job(e)].has THEN ckpt[Job(e)].items ELSE -1]
    /\ prog' = [prog EXCEPT ![Job(e)] = 0]
    /\ phase' = [phase EXCEPT ![Job(e)] = "initializing"]
    /\ UNCHANGED <<rec, queue, active_tasks, ckpt, milvus, running_tasks, call, hist, batcher, embedder, failed_batches, ingest, tracker, parser, chunker, limiter, upload>>

\* 372-374: status running, stored from the task's own copy of the record
StoreRunning(e) ==
    /\ Runs(e, "start_tracking")
    /\ exec' = SetPc(e, "store_running")
    /\ rec' = [rec EXCEPT ![Job(e)] = exec[e].ti]
    /\ UNCHANGED <<queue, active_tasks, ckpt, prog, milvus, running_tasks, call, hist, batcher, embedder, failed_batches, phase, ingest, tracker, parser, chunker, limiter, upload>>

\* 377-429: the record is stored again after update_phase, progress is reset
\* to 0 (384) and, with a checkpoint, set to its items_processed (416-426);
\* the task is then suspended at update_phase(PROCESSING), before ingestion
RecoveredItems(rc) == IF rc >= 0 THEN rc ELSE 0
StartPositionAfterRecovery(rc) == IF rc >= 0 THEN 1 ELSE 0
\* ingest_json_file_streaming (rag_ingest 193-262) takes no position and is
\* given none (434-446): every attempt reads the file from its first item,
\* whatever checkpoint rc the attempt starts from
StartPosition(rc) == 0
Prepare(e) ==
    /\ Runs(e, "store_running")
    /\ rec' = [rec EXCEPT ![Job(e)] = exec[e].ti]
    /\ prog' = [prog EXCEPT ![Job(e)] = RecoveredItems(exec[e].rc)]
    /\ exec' = [exec EXCEPT ![e].pc = "ingest", ![e].pos = StartPosition(exec[e].rc)]
    /\ phase' = [phase EXCEPT ![Job(e)] = update_phase(@, "parsing_json")]
    /\ UNCHANGED <<queue, active_tasks, ckpt, milvus, running_tasks, call, hist, batcher, embedder, failed_batches, ingest, tracker, parser, chunker, limiter, upload>>

\* One step of ingest_json_file_streaming embeds the next batch_size items and
\* inserts them as new rows (264-309, milvus_store 137-190; the primary key is
\* an auto id, so a text inserted again is stored again: milvus keeps the set
\* of texts, not the number of rows).  progress_callback(...) at 309 is called
\* without await, so the coroutine function enhanced_progress_callback
\* (391-413) never runs and nothing else is written.
IngestBatch(e) ==
    /\ Runs(e, "ingest")
    /\ exec[e].pos < NBatches
    /\ milvus' = [milvus EXCEPT ![Job(e)] = @ \cup {exec[e].pos + 1}]
    /\ exec' = [exec EXCEPT ![e].pos = @ + 1]
    /\ UNCHANGED <<rec, queue, active_tasks, ckpt, prog, running_tasks, call, hist, batcher, embedder, failed_batches, phase, ingest, tracker, parser, chunker, limiter, upload>>

\* _is_error_recoverable (538-549)
IsErrorRecoverable(kind) == kind = "recoverable"
ShouldRetryUncapped(retry_count, kind) == IsErrorRecoverable(kind)
\* 454: retry after this failure?
ShouldRetry(retry_count, kind) == retry_count <= max_retries /\ IsErrorRecoverable(kind)

\* 450-470: ingestion raises.  Either a checkpoint is forced from the task's
\* copy of the record (456-462) and the loop sleeps, or the error reaches
\* `except Exception`, which reads the record again (503) and marks its copy
\* failed (506)
IngestFails(e, kind) ==
    /\ Runs(e, "ingest")
    /\ exec[e].pos < NBatches
    /\ IF ShouldRetry(exec[e].retry + 1, kind)
       THEN /\ ckpt' = [ckpt EXCEPT ![Job(e)] = save_checkpoint(@, exec[e].ti.items, TRUE)]
            /\ exec' = [exec EXCEPT ![e].pc = "retry_ckpt", ![e].retry = @ + 1,
                                    ![e].pos = 0, ![e].rc = exec[e].ti.items,
                                    ![e].err = kind]
       ELSE /\ exec' = [exec EXCEPT ![e].pc = "fail_get", ![e].retry = 0, ![e].pos = 0,
                                    ![e].rc = -1, ![e].err = kind,
                                    ![e].ti = [rec[Job(e)] EXCEPT !.status = "failed"]]
            /\ UNCHANGED ckpt
    /\ UNCHANGED <<rec, queue, active_tasks, prog, milvus, running_tasks, call, hist, batcher, embedder, failed_batches, phase, ingest, tracker, parser, chunker, limiter, upload>>

\* the same, with at most MaxTransient recoverable errors in one execution
IngestError(e, kind) ==
    /\ IsErrorRecoverable(kind) => exec[e].retry < MaxTransient
    /\ IngestFails(e, kind)

\* 464-467: asyncio.sleep(delay); the loop then calls ingestion again
RetrySleep(e) ==
    /\ Runs(e, "retry_ckpt")
    /\ exec' = [exec EXCEPT ![e].pc = "ingest", ![e].pos = StartPosition(exec[e].rc),
                            ![e].err = "none"]
    /\ UNCHANGED <<rec, queue, active_tasks, ckpt, prog, milvus, running_tasks, call, hist, batcher, embedder, failed_batches, phase, ingest, tracker, parser, chunker, limiter, upload>>

\* 473-484: ingestion returned; completed, items_processed = result["upserted"]
StoreCompleted(e) ==
    /\ Runs(e, "ingest")
    /\ exec[e].pos = NBatches
    /\ exec' = [exec EXCEPT ![e].pc = "store_completed", ![e].retry = 0, ![e].pos = 0,
                            ![e].rc = -1,
                            ![e].ti = [status |-> "completed", items |-> FileItems]]
    /\ rec' = [rec EXCEPT ![Job(e)] = [status |-> "completed", items |-> FileItems]]
    /\ hist' = [hist EXCEPT !.ever_completed[Job(e)] = TRUE]
    /\ phase' = [phase EXCEPT ![Job(e)] = update_phase(@, "finalizing")]
    /\ UNCHANGED <<queue, active_tasks, ckpt, prog, milvus, running_tasks, call, batcher, embedder, failed_batches, ingest, tracker, parser, chunker, limiter, upload>>

\* 487-490: finish_tracking(success=True), then delete_checkpoint
DeleteCheckpoint(e) ==
    /\ Runs(e, "store_completed")
    /\ ckpt' = [ckpt EXCEPT ![Job(e)] = NoCheckpoint]
    /\ exec' = SetPc(e, "del_ckpt")
    /\ phase' = [phase EXCEPT ![Job(e)] = finish_tracking(@, TRUE)]
    /\ UNCHANGED <<rec, queue, active_tasks, prog, milvus, running_tasks, call, hist, batcher, embedder, failed_batches, ingest, tracker, parser, chunker, limiter, upload>>

\* finally (529-533): the entry stored under the job id is deleted, whichever
\* task it refers to, and srem is issued
Finally(e) ==
    /\ running_tasks' = [running_tasks EXCEPT ![Job(e)] = 0]
    /\ active_tasks' = active_tasks \ {Job(e)}
    /\ exec' = [exec EXCEPT ![e] = [FreeExec EXCEPT !.job = Job(e), !.pc = "fin_srem"]]

\* the try body ends after delete_checkpoint
EndCompleted(e) ==
    /\ Runs(e, "del_ckpt")
    /\ Finally(e)
    /\ UNCHANGED <<rec, queue, ckpt, prog, milvus, call, hist, batcher, embedder, failed_batches, phase, ingest, tracker, parser, chunker, limiter, upload>>

\* 506-515: the copy read at 503, marked failed, is stored
FailStore(e) ==
    /\ Runs(e, "fail_get")
    /\ exec' = SetPc(e, "fail_store")
    /\ rec' = [rec EXCEPT ![Job(e)] = exec[e].ti]
    /\ UNCHANGED <<queue, active_tasks, ckpt, prog, milvus, running_tasks, call, hist, batcher, embedder, failed_batches, phase, ingest, tracker, parser, chunker, limiter, upload>>

\* 518-527: finish_tracking(success=False), then the final checkpoint
FailCheckpoint(e) ==
    /\ Runs(e, "fail_store")
    /\ ckpt' = [ckpt EXCEPT ![Job(e)] = save_checkpoint(@, exec[e].ti.items, TRUE)]
    /\ exec' = SetPc(e, "fail_ckpt")
    /\ phase' = [phase EXCEPT ![Job(e)] = finish_tracking(@, FALSE)]
    /\ UNCHANGED <<rec, queue, active_tasks, prog, milvus, running_tasks, call, hist, batcher, embedder, failed_batches, ingest, tracker, parser, chunker, limiter, upload>>

EndFailed(e) ==
    /\ Runs(e, "fail_ckpt")
    /\ Finally(e)
    /\ UNCHANGED <<rec, queue, ckpt, prog, milvus, call, hist, batcher, embedder, failed_batches, phase, ingest, tracker, parser, chunker, limiter, upload>>

\* `except asyncio.CancelledError` (494-497): finish_tracking(success=False),
\* then finally
EndCancelled(e) ==
    /\ Runs(e, "cancel_finish")
    /\ Finally(e)
    /\ phase' = [phase EXCEPT ![Job(e)] = finish_tracking(@, FALSE)]
    /\ UNCHANGED <<rec, queue, ckpt, prog, milvus, call, hist, batcher, embedder, failed_batches, ingest, tracker, parser, chunker, limiter, upload>>

\* CancelledError raised inside the `except Exception` handler: only finally runs
CancelledInHandler(e) ==
    /\ exec[e].pc \in FailPcs /\ exec[e].must_cancel
    /\ Finally(e)
    /\ UNCHANGED <<rec, queue, ckpt, prog, milvus, call, hist, batcher, embedder, failed_batches, phase, ingest, tracker, parser, chunker, limiter, upload>>

\* 536: _process_queue from the finally block; the task is done when it returns
TaskInQueue(e, co) ==
    IF co.pc = "pq_exit"
    THEN /\ exec' = TaskDone(exec, e)
         /\ running_tasks' = HandlesAfterDone(e)
    ELSE /\ exec' = [exec EXCEPT ![e] = co]
         /\ UNCHANGED running_tasks

TaskEnterQueue(e) ==
    /\ Runs(e, "fin_srem")
    /\ TaskInQueue(e, ProcessQueueHead(exec[e], LenRunning))
    /\ queue' = QueueAfterHead(LenRunning)
    /\ UNCHANGED <<rec, active_tasks, ckpt, prog, milvus, call, hist, batcher, embedder, failed_batches, phase, ingest, tracker, parser, chunker, limiter, upload>>

TaskQueuePopped(e) ==
    /\ Runs(e, "pq_rpop")
    /\ IF exec[e].popped = 0
       THEN /\ exec' = TaskDone(exec, e)
            /\ running_tasks' = HandlesAfterDone(e)
            /\ UNCHANGED active_tasks
       ELSE /\ HasFree
            /\ exec' = [CreateTask(exec, exec[e].popped) EXCEPT ![e].pc = "pq_sadd"]
            /\ running_tasks' = [running_tasks EXCEPT ![exec[e].popped] = FreeSlot]
            /\ active_tasks' = active_tasks \cup {exec[e].popped}
    /\ UNCHANGED <<rec, queue, ckpt, prog, milvus, call, hist, batcher, embedder, failed_batches, phase, ingest, tracker, parser, chunker, limiter, upload>>

TaskQueueNext(e) ==
    /\ Runs(e, "pq_sadd")
    /\ TaskInQueue(e, ProcessQueueHead(exec[e], exec[e].cnt + 1))
    /\ queue' = QueueAfterHead(exec[e].cnt + 1)
    /\ UNCHANGED <<rec, active_tasks, ckpt, prog, milvus, call, hist, batcher, embedder, failed_batches, phase, ingest, tracker, parser, chunker, limiter, upload>>

\* ------------------------------------------- CheckpointManager housekeeping
\* time passes: the checkpoint's created_at falls behind the cutoff of a later
\* cleanup.  max_age_hours is long against one execution, so a checkpoint
\* grows old only while no task is alive.
CheckpointAges(j) ==
    /\ ckpt[j].has /\ ~ckpt[j].aged
    /\ \A e \in Execs : exec[e].pc = "free"
    /\ ckpt' = [ckpt EXCEPT ![j].aged = TRUE]
    /\ UNCHANGED <<rec, queue, active_tasks, prog, milvus, running_tasks, exec, call, hist, batcher, embedder, failed_batches, phase, ingest, tracker, parser, chunker, limiter, upload>>

CleanupDeletesAny(c) == c.has
\* cleanup_old_checkpoints (384-440): every checkpoint with created_at < cutoff_time
CleanupDeletes(c) == c.has /\ c.aged
CleanupOldCheckpoints ==
    /\ \E j \in Jobs : CleanupDeletes(ckpt[j])
    /\ ckpt' = [j \in Jobs |-> IF CleanupDeletes(ckpt[j]) THEN NoCheckpoint ELSE ckpt[j]]
    /\ UNCHANGED <<rec, queue, active_tasks, prog, milvus, running_tasks, exec, call, hist, batcher, embedder, failed_batches, phase, ingest, tracker, parser, chunker, limiter, upload>>

CallStep(c) ==
    \/ Lpush(c) \/ CallEnterQueue(c) \/ CallQueuePopped(c) \/ CallQueueNext(c)
    \/ PauseDecide(c) \/ PauseCancel(c) \/ ResumeDecide(c)
    \/ CancelDecide(c) \/ CancelCancel(c) \/ CancelReturn(c) \/ Respond(c)

TaskStep(e) ==
    \/ TaskStart(e) \/ StartTracking(e) \/ StoreRunning(e) \/ Prepare(e)
    \/ IngestBatch(e) \/ RetrySleep(e) \/ StoreCompleted(e)
    \/ DeleteCheckpoint(e) \/ EndCompleted(e)
    \/ FailStore(e) \/ FailCheckpoint(e) \/ EndFailed(e)
    \/ EndCancelled(e)
    \/ CancelledInHandler(e)
    \/ TaskEnterQueue(e) \/ TaskQueuePopped(e) \/ TaskQueueNext(e)

\* One job id, unknown to the manager until it is started, under every
\* operation, with failing ingestion and checkpoint housekeeping.
OneJob == {1}
NextTasks ==
    \/ \E c \in Calls, j \in OneJob : StartTask(c, j)
    \/ \E c \in Calls, j \in OneJob, op \in {"pause", "resume", "cancel"} : Control(c, op, j)
    \/ \E c \in Calls : CallStep(c)
    \/ \E e \in Execs : TaskStep(e)
    \/ \E e \in Execs, kind \in {"recoverable", "fatal"} : IngestError(e, kind)
    \/ \E j \in Jobs : CheckpointAges(j)
    \/ CleanupOldCheckpoints

\* Two jobs competing for the worker pool: clients start, pause and cancel,
\* ingestion meets no error.
CapacityCallStep(c) ==
    \/ Lpush(c) \/ CallEnterQueue(c) \/ CallQueuePopped(c) \/ CallQueueNext(c)
    \/ PauseDecide(c) \/ PauseCancel(c) \/ Respond(c)
    \/ CancelDecide(c) \/ CancelCancel(c) \/ CancelReturn(c)

CapacityTaskStep(e) ==
    \/ TaskStart(e) \/ StartTracking(e) \/ StoreRunning(e) \/ Prepare(e)
    \/ IngestBatch(e) \/ StoreCompleted(e) \/ DeleteCheckpoint(e) \/ EndCompleted(e)
    \/ EndCancelled(e)
    \/ TaskEnterQueue(e) \/ TaskQueuePopped(e) \/ TaskQueueNext(e)

NextCapacity ==
    \/ \E c \in Calls, j \in Jobs : StartTask(c, j)
    \/ \E c \in Calls, j \in Jobs, op \in {"pause", "cancel"} : Control(c, op, j)
    \/ \E c \in Calls : CapacityCallStep(c)
    \/ \E e \in Execs : CapacityTaskStep(e)

\* Two jobs started by one client, then shutdown; ingestion meets no error.
NextShutdown ==
    \/ \E c \in Calls, j \in Jobs : StartTask(c, j)
    \/ \E c \in Calls : \/ Lpush(c) \/ CallEnterQueue(c) \/ CallQueuePopped(c)
                        \/ CallQueueNext(c) \/ Respond(c)
                        \/ Shutdown(c) \/ ShutdownReturn(c)
    \/ \E e \in Execs : CapacityTaskStep(e)

\* One client starting jobs that nobody pauses or cancels; ingestion may fail
\* any number of times.
NextRetry ==
    \/ \E c \in Calls, j \in Jobs : StartTask(c, j)
    \/ \E c \in Calls : \/ Lpush(c) \/ CallEnterQueue(c) \/ CallQueuePopped(c)
                        \/ CallQueueNext(c) \/ Respond(c)
    \/ \E e \in Execs :
          \/ TaskStart(e) \/ StartTracking(e) \/ StoreRunning(e) \/ Prepare(e)
          \/ IngestBatch(e) \/ RetrySleep(e) \/ StoreCompleted(e)
          \/ DeleteCheckpoint(e) \/ EndCompleted(e)
          \/ FailStore(e) \/ FailCheckpoint(e) \/ EndFailed(e)
          \/ TaskEnterQueue(e) \/ TaskQueuePopped(e) \/ TaskQueueNext(e)
    \/ \E e \in Execs, kind \in {"recoverable", "fatal"} : IngestFails(e, kind)

\* =================================================== Part II: batch_manager
\* A text is known by its token count; 0 stands for a text that is empty after
\* strip(), which add_item and can_add_item turn away.
Texts == 0..MaxTextTokens
IsBlank(text) == text = 0
count_tokens(text) == text

\* a BatchItem: the position of the text in the input and its tokens
BatchItem(text, source_index) == [source_index |-> source_index, tokens |-> count_tokens(text)]

RECURSIVE estimate_batch_tokens(_)
estimate_batch_tokens(items) ==
    IF items = <<>> THEN 0
    ELSE items[1].tokens + estimate_batch_tokens(Tail(items))

\* None, where a Batch is expected
NoBatch == [items |-> <<>>, total_tokens |-> 0]

InitBatch ==
    batcher = [current_batch |-> <<>>, current_tokens |-> 0, batch_counter |-> 0,
               returned |-> NoBatch, calls |-> 0, input |-> <<>>, emitted |-> <<>>]

\* can_add_item (101-123)
can_add_item(text) ==
    /\ ~IsBlank(text)
    /\ Len(batcher.current_batch) < CHUNK_LIMIT
    /\ batcher.current_tokens + count_tokens(text) <= TOKEN_LIMIT

complete_current_batch_dropped == NoBatch
\* _complete_current_batch (202-231): the Batch, its tokens counted again
complete_current_batch ==
    IF batcher.current_batch = <<>> THEN NoBatch
    ELSE [items |-> batcher.current_batch,
          total_tokens |-> estimate_batch_tokens(batcher.current_batch)]
CounterAfterComplete ==
    IF batcher.current_batch = <<>> THEN batcher.batch_counter ELSE batcher.batch_counter + 1

\* add_item (125-162)
add_item(text) ==
    /\ batcher.calls < MaxTexts
    /\ batcher' =
         IF IsBlank(text)
         THEN [batcher EXCEPT !.returned = NoBatch, !.calls = @ + 1]
         ELSE IF ~can_add_item(text)
         THEN [current_batch |-> <<BatchItem(text, batcher.calls)>>,
               current_tokens |-> count_tokens(text),
               batch_counter |-> CounterAfterComplete,
               returned |-> complete_current_batch,
               calls |-> batcher.calls + 1,
               input |-> Append(batcher.input, BatchItem(text, batcher.calls)),
               emitted |-> batcher.emitted \o complete_current_batch.items]
         ELSE [batcher EXCEPT !.current_batch = Append(@, BatchItem(text, batcher.calls)),
                              !.current_tokens = @ + count_tokens(text),
                              !.returned = NoBatch,
                              !.calls = @ + 1,
                              !.input = Append(@, BatchItem(text, batcher.calls))]
    /\ UNCHANGED <<taskVars, embedder, failed_batches, ingest, tracker, parser, chunker, limiter, upload>>

\* finalize_batches (237-239)
finalize_batches ==
    /\ batcher' = [batcher EXCEPT !.current_batch = <<>>, !.current_tokens = 0,
                                  !.batch_counter = CounterAfterComplete,
                                  !.returned = complete_current_batch,
                                  !.emitted = @ \o complete_current_batch.items]
    /\ UNCHANGED <<taskVars, embedder, failed_batches, ingest, tracker, parser, chunker, limiter, upload>>

\* validate_batch (288-321), its two hard-limit tests.  A Batch holds only
\* items that add_item let in, so none of its texts is blank.
HardLimitErrors(batch) ==
    (IF Len(batch.items) > HARD_CHUNK_LIMIT THEN {"size"} ELSE {})
    \cup (IF estimate_batch_tokens(batch.items) > HARD_TOKEN_LIMIT THEN {"tokens"} ELSE {})
\* BatchProcessor.process_stream_to_batches (381-411): `if completed_batch:`
\* ... `yield completed_batch`; is_valid only decides whether a warning is logged
process_stream_yields(batch, is_valid) == batch # NoBatch

NextBatch ==
    \/ \E text \in Texts : add_item(text)
    \/ finalize_batches

\* ====================================================== Part III: embeddings
\* str(e).lower() of an exception, cut into pieces such that every indicator
\* of _should_retry is a run of whole pieces wherever it occurs in a message:
\* `indicator in error_str` is then Contains(error_str, indicator)
Contains(error_str, indicator) ==
    \E i \in 1..(Len(error_str) - Len(indicator) + 1) :
        SubSeq(error_str, i, i + Len(indicator) - 1) = indicator

\* MockFailureSimulator.failure_scenarios and the exception create_api_error
\* builds for each: Exception(f"HTTP {status_code}: {scenario}"),
\* ConnectionError(f"Network connection failed: {scenario}"),
\* json.JSONDecodeError("Invalid JSON response", "", 0)
failure_scenarios == {
    [scenario |-> "api_rate_limit", retryable |-> TRUE,
     error_str |-> <<"http ", "429", ": api_", "rate", "_", "limit">>],
    [scenario |-> "api_timeout", retryable |-> TRUE,
     error_str |-> <<"http ", "408", ": api_", "timeout">>],
    [scenario |-> "api_server_error", retryable |-> TRUE,
     error_str |-> <<"http ", "500", ": api_server_error">>],
    [scenario |-> "api_auth_error", retryable |-> FALSE,
     error_str |-> <<"http ", "401", ": api_auth_error">>],
    [scenario |-> "api_quota_exceeded", retryable |-> FALSE,
     error_str |-> <<"http ", "403", ": api_", "quota", "_", "exceeded">>],
    [scenario |-> "network_error", retryable |-> TRUE,
     error_str |-> <<"network", " ", "connection", " failed: ", "network", "_error">>],
    [scenario |-> "malformed_response", retryable |-> FALSE,
     error_str |-> <<"invalid", " json response: line 1 column 1 (char 0)">>] }

retry_indicators == {
    <<"rate", " ", "limit">>, <<"timeout">>, <<"503">>, <<"502">>, <<"500">>,
    <<"connection">>, <<"network">>, <<"temporary">>, <<"service unavailable">>,
    <<"too many requests">>, <<"throttled">>, <<"quota", " ", "exceeded">> }
no_retry_indicators == {
    <<"unauthorized">>, <<"forbidden">>, <<"invalid", " ", "key">>, <<"api key">>,
    <<"permission denied">>, <<"401">>, <<"403">> }

\* _should_retry (125-147)
should_retry(exception) ==
    IF \E indicator \in no_retry_indicators : Contains(exception.error_str, indicator)
    THEN FALSE
    ELSE \E indicator \in retry_indicators : Contains(exception.error_str, indicator)

retry_after_uncapped(attempt, exception) == should_retry(exception)
\* 109: `if attempt < self.max_retries and self._should_retry(e)`
retry_after(attempt, exception) == attempt < embedder_max_retries /\ should_retry(exception)

\* calls: the invocations of client.embed; failed: the exceptions they raised
InitEmbed ==
    embedder = [pc |-> "idle", attempt |-> 0, calls |-> 0, failed |-> <<>>]
last_exception == embedder.failed[Len(embedder.failed)]

\* embed_with_retry is called (69-92): no texts, nothing to do; otherwise
\* _validate_batch, then the first pass of `for attempt in range(max_retries + 1)`
\* invokes the provider
embed_with_retry(no_texts) ==
    /\ embedder.pc = "idle"
    /\ embedder' = IF no_texts THEN [embedder EXCEPT !.pc = "returned"]
                   ELSE [embedder EXCEPT !.pc = "calling", !.calls = @ + 1]
    /\ UNCHANGED <<taskVars, batcher, failed_batches, ingest, tracker, parser, chunker, limiter, upload>>

\* 93-102: the provider answers, the embeddings are returned
ProviderReturns ==
    /\ embedder.pc = "calling"
    /\ embedder' = [embedder EXCEPT !.pc = "returned"]
    /\ UNCHANGED <<taskVars, batcher, failed_batches, ingest, tracker, parser, chunker, limiter, upload>>

\* 104-120: the provider raises; sleep and go round again, or break out of
\* the loop to `raise last_exception` (123)
ProviderRaises(exception) ==
    /\ embedder.pc = "calling"
    /\ embedder' = [embedder EXCEPT
                       !.failed = Append(@, exception),
                       !.pc = IF retry_after(embedder.attempt, exception)
                              THEN "sleeping" ELSE "raised"]
    /\ UNCHANGED <<taskVars, batcher, failed_batches, ingest, tracker, parser, chunker, limiter, upload>>

\* 115-116: asyncio.sleep(delay) is over; `continue`, the next pass invokes the provider
SleepOver ==
    /\ embedder.pc = "sleeping"
    /\ embedder' = [embedder EXCEPT !.pc = "calling", !.attempt = @ + 1, !.calls = @ + 1]
    /\ UNCHANGED <<taskVars, batcher, failed_batches, ingest, tracker, parser, chunker, limiter, upload>>

NextEmbed ==
    \/ \E no_texts \in BOOLEAN : embed_with_retry(no_texts)
    \/ ProviderReturns
    \/ \E exception \in failure_scenarios : ProviderRaises(exception)
    \/ SleepOver

\* ========================================= Part IV: failed-batch records
\* failed_batch_id = f"{task_id}_{int(time.time())}" (189)
FailedBatchIds == Jobs \X (0..MaxClock)
NoFailedBatch == [has |-> FALSE, batch_data |-> 0, retry_count |-> 0]
\* batch_data: the payload, known by the number of the save call that brought it
\* saves: the save calls made
\* saved, recovered: per job, the save calls and the records deleted by
\* mark_batch_recovered; handed: per payload, the times retry_failed_batch
\* returned it; last: the last call and what it returned (0 for None)
\* custom: the jobs were started with task ids given by the caller
InitFailed ==
    failed_batches = [store |-> [id \in FailedBatchIds |-> NoFailedBatch],
                      custom |-> FALSE,
                      now |-> 0,
                      saves |-> 0,
                      saved |-> [j \in Jobs |-> 0],
                      recovered |-> [j \in Jobs |-> 0],
                      handed |-> [p \in 1..MaxSaves |-> 0],
                      last |-> [op |-> "none", id |-> <<0, 0>>, result |-> 0]]

TotalSaved == failed_batches.saves

\* a second passes
ClockTick ==
    /\ failed_batches.now < MaxClock
    /\ failed_batches' = [failed_batches EXCEPT !.now = @ + 1]
    /\ UNCHANGED <<taskVars, batcher, embedder, ingest, tracker, parser, chunker, limiter, upload>>

\* save_failed_batch (172-213): setex under the id made of job and second
save_failed_batch(task_id) ==
    /\ TotalSaved < MaxSaves
    /\ failed_batches' =
         [failed_batches EXCEPT
            !.store[<<task_id, failed_batches.now>>] =
                [has |-> TRUE, batch_data |-> TotalSaved + 1, retry_count |-> 0],
            !.saves = @ + 1,
            !.saved[task_id] = @ + 1,
            !.last = [op |-> "save", id |-> <<task_id, failed_batches.now>>,
                      result |-> TotalSaved + 1]]
    /\ UNCHANGED <<taskVars, batcher, embedder, ingest, tracker, parser, chunker, limiter, upload>>

\* background_tasks.py start_task (141-142): the id is the caller's task_id
\* when one is given, and "ingest_" followed by fresh hex digits otherwise.
\* Ids, keys and patterns are sequences of characters; a run of characters
\* without an underscore is one element.
DefaultId(j) == <<"ingest", "_", ToString(j)>>
CustomId(j) == IF j = 1 THEN <<"a">> ELSE <<"a", "_", ToString(j)>>
task_id_text(j) == IF failed_batches.custom THEN CustomId(j) ELSE DefaultId(j)

\* the caller of start_task chooses the ids, before anything is saved
UseCustomIds ==
    /\ ~failed_batches.custom
    /\ TotalSaved = 0
    /\ failed_batches' = [failed_batches EXCEPT !.custom = TRUE]
    /\ UNCHANGED <<taskVars, batcher, embedder, ingest, tracker, parser, chunker, limiter, upload>>

\* 189, 201: key = "failed_batch:" + task_id + "_" + str(int(time.time()))
failed_batch_key(id) == <<"failed_batch:">> \o task_id_text(id[1]) \o <<"_", ToString(id[2])>>
\* 226: pattern = "failed_batch:" + task_id + "_*"; the literal part of it
PatternPrefix(task_id) == <<"failed_batch:">> \o task_id_text(task_id) \o <<"_">>
\* redis.keys(pattern) (227): `*` stands for any run of characters
KeyMatches(key, task_id) ==
    /\ Len(key) >= Len(PatternPrefix(task_id))
    /\ SubSeq(key, 1, Len(PatternPrefix(task_id))) = PatternPrefix(task_id)

\* get_failed_batches (215-239): the records under the keys that match
\* failed_batch:{task_id}_*
get_failed_batches(task_id) ==
    {failed_batches.store[id] : id \in {i \in FailedBatchIds :
        failed_batches.store[i].has /\ KeyMatches(failed_batch_key(i), task_id)}}

RetryAllowedAtCap(retry_count, cap) == retry_count <= cap
\* 266: `if retry_count >= max_retries: return None`
RetryAllowed(retry_count, cap) == ~(retry_count >= cap)

\* retry_failed_batch (241-286), cap its max_retries argument
retry_failed_batch(failed_batch_id, cap) ==
    /\ LET failed_batch == failed_batches.store[failed_batch_id] IN
         failed_batches' =
           IF failed_batch.has /\ RetryAllowed(failed_batch.retry_count, cap)
           THEN [failed_batches EXCEPT
                   !.store[failed_batch_id].retry_count = @ + 1,
                   !.handed[failed_batch.batch_data] = @ + 1,
                   !.last = [op |-> "retry", id |-> failed_batch_id,
                             result |-> failed_batch.batch_data]]
           ELSE [failed_batches EXCEPT
                   !.last = [op |-> "retry", id |-> failed_batch_id, result |-> 0]]
    /\ UNCHANGED <<taskVars, batcher, embedder, ingest, tracker, parser, chunker, limiter, upload>>

\* mark_batch_recovered (288-309): delete
mark_batch_recovered(failed_batch_id) ==
    /\ failed_batches' =
         [failed_batches EXCEPT
            !.store[failed_batch_id] = NoFailedBatch,
            !.recovered[failed_batch_id[1]] =
                IF failed_batches.store[failed_batch_id].has THEN @ + 1 ELSE @,
            !.last = [op |-> "mark", id |-> failed_batch_id,
                      result |-> IF failed_batches.store[failed_batch_id].has THEN 1 ELSE 0]]
    /\ UNCHANGED <<taskVars, batcher, embedder, ingest, tracker, parser, chunker, limiter, upload>>

NextFailed ==
    \/ ClockTick
    \/ UseCustomIds
    \/ \E task_id \in Jobs : save_failed_batch(task_id)
    \/ \E id \in FailedBatchIds : retry_failed_batch(id, MaxBatchRetries)
    \/ \E id \in FailedBatchIds : mark_batch_recovered(id)

\* ======================================================================
\* Part V.  ingest_json_file_streaming (rag_ingest.py 255-389) and the counters
\* _process_task stores from its result (background_tasks.py 476-484)
\* ======================================================================
InitIngest ==
    ingest = [pc |-> "reading", read |-> 0, text_batch |-> 0,
              total_chunks_created |-> 0, total_embeddings_generated |-> 0,
              total_upserted |-> 0, upserted |-> -1,
              items_processed |-> -1, embeddings_generated |-> -1]

\* 265-276: the parser yields one more item; a blank text is skipped, any other
\* is appended to text_batch and counted as a chunk
NextItem(blank) ==
    /\ ingest.pc = "reading"
    /\ ingest.read < MaxItems
    /\ ingest' = IF blank
                 THEN [ingest EXCEPT !.read = @ + 1]
                 ELSE [ingest EXCEPT !.read = @ + 1, !.text_batch = @ + 1,
                                     !.total_chunks_created = @ + 1,
                                     !.pc = IF ingest.text_batch + 1 >= ingest_batch_size
                                            THEN "batch" ELSE "reading"]
    /\ UNCHANGED <<taskVars, batcher, embedder, failed_batches, tracker, parser, chunker, limiter, upload>>

\* 304: the stream ends; a remaining text_batch is the final batch
EndOfStream ==
    /\ ingest.pc = "reading"
    /\ ingest' = [ingest EXCEPT !.pc = IF ingest.text_batch > 0 THEN "final" ELSE "validate"]
    /\ UNCHANGED <<taskVars, batcher, embedder, failed_batches, tracker, parser, chunker, limiter, upload>>

\* _process_text_batch (415-519) returns success: every text was embedded,
\* Milvus reported inserted_count rows; 292, 318: total_upserted += upserted
process_text_batch(inserted_count) ==
    /\ ingest.pc \in {"batch", "final"}
    /\ inserted_count \in 0..ingest.text_batch
    /\ ingest' = [ingest EXCEPT !.total_embeddings_generated = @ + ingest.text_batch,
                                !.total_upserted = @ + inserted_count,
                                !.text_batch = 0,
                                !.pc = IF ingest.pc = "batch" THEN "reading" ELSE "validate"]
    /\ UNCHANGED <<taskVars, batcher, embedder, failed_batches, tracker, parser, chunker, limiter, upload>>

\* 521-527, 298-300, 324-326: the batch raises and ingestion ends with RuntimeError
BatchRaises ==
    /\ ingest.pc \in {"batch", "final"}
    /\ ingest' = [ingest EXCEPT !.pc = "raised"]
    /\ UNCHANGED <<taskVars, batcher, embedder, failed_batches, tracker, parser, chunker, limiter, upload>>

\* 329-389: the result returned, "upserted" being total_upserted; nothing
\* upserted out of some chunks raises (355-358)
IngestReturns ==
    /\ ingest.pc = "validate"
    /\ ingest' = IF ingest.total_chunks_created = 0
                 THEN [ingest EXCEPT !.pc = "returned", !.upserted = 0]
                 ELSE IF ingest.total_upserted = 0
                 THEN [ingest EXCEPT !.pc = "raised"]
                 ELSE [ingest EXCEPT !.pc = "returned", !.upserted = ingest.total_upserted]
    /\ UNCHANGED <<taskVars, batcher, embedder, failed_batches, tracker, parser, chunker, limiter, upload>>

\* background_tasks.py 476-484: the record of the completed job
StoreResult ==
    /\ ingest.pc = "returned"
    /\ ingest' = [ingest EXCEPT !.pc = "completed",
                                !.items_processed = ingest.upserted,
                                !.embeddings_generated = ingest.upserted]
    /\ UNCHANGED <<taskVars, batcher, embedder, failed_batches, tracker, parser, chunker, limiter, upload>>

NextIngest ==
    \/ \E blank \in BOOLEAN : NextItem(blank)
    \/ EndOfStream
    \/ \E inserted_count \in 0..ingest_batch_size : process_text_batch(inserted_count)
    \/ BatchRaises
    \/ IngestReturns
    \/ StoreResult

\* ======================================================================
\* Part VI.  ProgressTracker (progress_tracker.py)
\* ======================================================================
InitTracker ==
    tracker = [has |-> FALSE, total_items_processed |-> 0, total_items_expected |-> 0,
               current_phase |-> "none", phase_history |-> <<>>, last_update |-> 0,
               now |-> 0, trackings |-> 0, last |-> "none"]

\* time.time() moves on
TrackerTick ==
    /\ tracker.now < MaxNow
    /\ tracker' = [tracker EXCEPT !.now = @ + 1]
    /\ UNCHANGED <<taskVars, batcher, embedder, failed_batches, ingest, parser, chunker, limiter, upload>>

\* PhaseProgress (35-44) as update_phase creates it
PhaseProgress(new_phase) == [phase |-> new_phase, items_processed |-> 0, ended |-> FALSE]

\* 190-194, 407-411: the last phase of the history gets its end_time, if it has none
EndCurrentPhase(phase_history) ==
    IF phase_history = <<>> THEN phase_history
    ELSE [phase_history EXCEPT ![Len(phase_history)].ended = TRUE]

\* start_tracking (146-176), called by every execution of a job
\* (background_tasks.py 366): a new ProgressStatistics replaces the stored one.
\* total_items_expected = 0 stands for None.
start_tracking(total_items_expected) ==
    /\ tracker.trackings < MaxTrackings
    /\ ~tracker.has \/ tracker.last = "finish_error"
    /\ tracker' = [tracker EXCEPT !.has = TRUE, !.total_items_processed = 0,
                                 !.total_items_expected = total_items_expected,
                                 !.current_phase = "initializing",
                                 !.phase_history = <<>>,
                                 !.last_update = tracker.now,
                                 !.trackings = @ + 1, !.last = "start"]
    /\ UNCHANGED <<taskVars, batcher, embedder, failed_batches, ingest, parser, chunker, limiter, upload>>

\* update_phase (178-217)
UpdatePhase(new_phase) ==
    /\ tracker.has
    /\ Len(tracker.phase_history) < MaxPhases
    /\ tracker' = [tracker EXCEPT
                      !.phase_history = Append(EndCurrentPhase(@), PhaseProgress(new_phase)),
                      !.current_phase = update_phase(@, new_phase),
                      !.last = "phase"]
    /\ UNCHANGED <<taskVars, batcher, embedder, failed_batches, ingest, parser, chunker, limiter, upload>>

\* 246-247: is the call dropped?
TooEarly(force_update) ==
    ~force_update /\ tracker.now - tracker.last_update < update_interval

\* update_progress (219-287) with items_processed given
update_progress(items_processed, force_update) ==
    /\ tracker.has
    /\ tracker' =
          IF TooEarly(force_update)
          THEN [tracker EXCEPT !.last = "progress"]
          ELSE [tracker EXCEPT
                   !.total_items_processed = items_processed,
                   !.phase_history =
                       IF @ = <<>> THEN @
                       ELSE [@ EXCEPT ![Len(@)].items_processed = items_processed],
                   !.last_update = tracker.now,
                   !.last = "progress"]
    /\ UNCHANGED <<taskVars, batcher, embedder, failed_batches, ingest, parser, chunker, limiter, upload>>

\* finish_tracking (395-428)
FinishTracking(success) ==
    /\ tracker.has
    /\ tracker.last \notin {"finish_success", "finish_error"}
    /\ tracker' = [tracker EXCEPT
                      !.phase_history = EndCurrentPhase(@),
                      !.current_phase = finish_tracking(@, success),
                      !.last = IF success THEN "finish_success" ELSE "finish_error"]
    /\ UNCHANGED <<taskVars, batcher, embedder, failed_batches, ingest, parser, chunker, limiter, upload>>

\* ProgressStatistics.overall_percentage (102-107) in whole percent, -1 for None
overall_percentage ==
    IF tracker.total_items_expected > 0
    THEN LET p == (tracker.total_items_processed * 100) \div tracker.total_items_expected
         IN  IF p > 100 THEN 100 ELSE p
    ELSE -1

NextTracker ==
    \/ TrackerTick
    \/ \E total_items_expected \in 0..MaxExpected : start_tracking(total_items_expected)
    \/ \E new_phase \in {"analyzing_file", "parsing_json"} : UpdatePhase(new_phase)
    \/ \E items_processed \in 0..MaxExpected, force_update \in BOOLEAN :
          update_progress(items_processed, force_update)
    \/ \E success \in BOOLEAN : FinishTracking(success)

\* ======================================================================
\* Part VII.  StreamingJSONProcessor._stream_ndjson (streaming_parser.py)
\* ======================================================================
\* The file is a string over Chars.  "{" followed by "}" stands for the text of
\* a JSON object with content; every other non-blank line fails to parse.
Chars == {"{", "}", " ", "\n"}
RECURSIVE Files(_)
Files(n) ==
    IF n = 0 THEN {<<>>}
    ELSE LET shorter == Files(n - 1)
         IN  shorter \cup {Append(f, ch) : f \in {g \in shorter : Len(g) = n - 1}, ch \in Chars}

InitParser ==
    parser = [file |-> <<>>, pos |-> 0, buffer |-> <<>>, pc |-> "closed",
              yielded |-> <<>>, item_index |-> 0, items_processed |-> 0,
              errors_encountered |-> 0]

\* process_json_file (499-514): the file is opened and a processor with
\* format ndjson reads it
OpenStream(f) ==
    /\ parser.pc = "closed"
    /\ parser' = [parser EXCEPT !.file = f, !.pc = "read"]
    /\ UNCHANGED <<taskVars, batcher, embedder, failed_batches, ingest, tracker, chunker, limiter, upload>>

\* str.strip()
RECURSIVE strip(_)
strip(line) ==
    IF line = <<>> THEN line
    ELSE IF Head(line) = " " THEN strip(Tail(line))
    ELSE IF line[Len(line)] = " " THEN strip(SubSeq(line, 1, Len(line) - 1))
    ELSE line

json_loads_any(line) == TRUE
\* json.loads(line) returns instead of raising JSONDecodeError
json_loads(line) == line = <<"{", "}">>

\* 179-198: the body of the loop over the lines read, for one line
stream_ndjson(line) ==
    IF strip(line) = <<>>
    THEN [parser EXCEPT !.pc = parser.pc]
    ELSE IF json_loads(strip(line))
    THEN [parser EXCEPT !.yielded = Append(@, parser.item_index),
                        !.item_index = @ + 1,
                        !.items_processed = @ + 1]
    ELSE [parser EXCEPT !.errors_encountered = @ + 1]

\* position of the first "\n" of the buffer, 0 when it has none
FirstNewline(buffer) ==
    IF \E i \in 1..Len(buffer) : buffer[i] = "\n"
    THEN CHOOSE i \in 1..Len(buffer) :
            buffer[i] = "\n" /\ \A k \in 1..(i - 1) : buffer[k] # "\n"
    ELSE 0

\* 211-219: file_stream.read(chunk_size); an empty chunk ends the loop
ReadChunk ==
    /\ parser.pc = "read"
    /\ LET chunk == SubSeq(parser.file, parser.pos + 1,
                           IF parser.pos + chunk_size > Len(parser.file)
                           THEN Len(parser.file) ELSE parser.pos + chunk_size)
       IN  parser' = IF chunk = <<>>
                     THEN [parser EXCEPT !.pc = "rest"]
                     ELSE [parser EXCEPT !.buffer = @ \o chunk,
                                         !.pos = @ + Len(chunk), !.pc = "split"]
    /\ UNCHANGED <<taskVars, batcher, embedder, failed_batches, ingest, tracker, chunker, limiter, upload>>

\* 221-223: while the buffer holds a newline, the line before it is yielded
\* to _stream_ndjson
SplitLine ==
    /\ parser.pc = "split"
    /\ LET i == FirstNewline(parser.buffer)
       IN  parser' = IF i = 0
                     THEN [parser EXCEPT !.pc = "read"]
                     ELSE [stream_ndjson(SubSeq(parser.buffer, 1, i - 1)) EXCEPT
                              !.buffer = SubSeq(parser.buffer, i + 1, Len(parser.buffer))]
    /\ UNCHANGED <<taskVars, batcher, embedder, failed_batches, ingest, tracker, chunker, limiter, upload>>

\* 225-227: what is left in the buffer is the last line, unless it is blank
RestOfBuffer ==
    /\ parser.pc = "rest"
    /\ parser' = IF strip(parser.buffer) # <<>>
                 THEN [stream_ndjson(parser.buffer) EXCEPT !.pc = "done", !.buffer = <<>>]
                 ELSE [parser EXCEPT !.pc = "done"]
    /\ UNCHANGED <<taskVars, batcher, embedder, failed_batches, ingest, tracker, chunker, limiter, upload>>

NextParser ==
    \/ \E f \in Files(MaxFileLen) : OpenStream(f)
    \/ ReadChunk
    \/ SplitLine
    \/ RestOfBuffer

\* ======================================================================
\* Part VIII.  Chunking: StreamingJSONProcessor._chunk_text, _recursive_chunk
\* and _token_aware_chunk (streaming_parser.py 334-387) and chunk_text of the
\* route /rag/ingest-file (api/routes/rag.py 208-226)
\* ======================================================================
\* A text is known by its length, a chunk text[start:end] by <<start, end>>.
MaxTextLen == 4
MaxChars == 3
MaxOverlap == 3
MaxChunks == 20
\* the document of the token-aware case and the characters a token takes
doc_tokens == 5000
MaxCharsPerToken == 4
\* streaming_parser.py 361-362: self.chunking.get("max_chars", 1200) and
\* self.chunking.get("overlap", 150)
default_max_chars == 1200
default_overlap == 150
\* rag_ingest.py 533-534, rag.py 502: the chunking configuration
\* {"strategy": "token_aware", "max_tokens": 1000, "overlap_tokens": 100, ...}
max_tokens == 1000
overlap_tokens == 100

InitChunk ==
    chunker = [pc |-> "idle", fn |-> "none", text_len |-> 0, max_chars |-> 0,
               overlap |-> 0, tokens |-> 0, chars_per_token |-> 0,
               start |-> 0, chunks |-> <<>>]

\* min and max of Python
min(a, b) == IF a <= b THEN a ELSE b
max(a, b) == IF a >= b THEN a ELSE b

\* chunks.append(chunk); the model keeps the first MaxChunks entries of the list
AppendChunk(chunks, chunk) ==
    IF Len(chunks) < MaxChunks THEN Append(chunks, chunk) ELSE chunks

\* the code before the while loop.  `if not text: return []` (343-344, rag.py
\* 209-210); `if len(text) <= max_chars: return [text]` (364-365), which
\* chunk_text of rag.py does not have
EnterChunking(fn, n, mc, ov, T, cpt) ==
    /\ chunker.pc = "idle"
    /\ chunker' =
         [pc |-> IF n = 0 \/ (fn # "chunk_text" /\ n <= mc) THEN "returned" ELSE "loop",
          fn |-> fn, text_len |-> n, max_chars |-> mc, overlap |-> ov,
          tokens |-> T, chars_per_token |-> cpt, start |-> 0,
          chunks |-> IF n = 0 THEN <<>>
                     ELSE IF fn # "chunk_text" /\ n <= mc THEN << <<0, n>> >>
                     ELSE <<>>]
    /\ UNCHANGED <<taskVars, pipelineVars, limiter, upload>>

\* _chunk_text with strategy "recursive" (351-352) and _recursive_chunk (359-381)
recursive_chunk_call ==
    \E n \in 0..MaxTextLen, mc \in 1..MaxChars, ov \in 0..MaxOverlap :
        EnterChunking("_recursive_chunk", n, mc, ov, 0, 0)

\* chunk_text of rag_ingest_file (rag.py 208-226) with a strategy other than none
chunk_text_call ==
    \E n \in 0..MaxTextLen, mc \in 1..MaxChars, ov \in 0..MaxOverlap :
        EnterChunking("chunk_text", n, mc, ov, 0, 0)

\* _chunk_text with strategy "token_aware" (353-354): _token_aware_chunk
\* (383-387) returns self._recursive_chunk(text), which reads max_chars and
\* overlap from a configuration that holds max_tokens and overlap_tokens, hence
\* the defaults.  The text has T tokens of cpt characters each.
token_aware_chunk_call ==
    \E T \in {max_tokens, doc_tokens}, cpt \in 1..MaxCharsPerToken :
        EnterChunking("_token_aware_chunk", T * cpt, default_max_chars, default_overlap,
                      T, cpt)

\* 378: start = max(start + 1, end - overlap); rag.py 225: start = max(0, end - overlap)
NextStart(fn, start, end, ov) ==
    IF fn = "chunk_text" THEN max(0, end - ov) ELSE max(start + 1, end - ov)

\* one pass of `while start < text_len` (370-378, rag.py 220-225)
WhileBody ==
    /\ chunker.pc = "loop"
    /\ LET end == min(chunker.text_len, chunker.start + chunker.max_chars) IN
         chunker' =
           [chunker EXCEPT
              !.chunks = AppendChunk(@, <<chunker.start, end>>),
              !.pc = IF end = chunker.text_len THEN "returned"
                     ELSE IF NextStart(chunker.fn, chunker.start, end, chunker.overlap)
                               < chunker.text_len
                          THEN "loop" ELSE "returned",
              !.start = IF end = chunker.text_len THEN @
                        ELSE NextStart(chunker.fn, @, end, chunker.overlap)]
    /\ UNCHANGED <<taskVars, pipelineVars, limiter, upload>>

NextChunk ==
    \/ recursive_chunk_call
    \/ chunk_text_call
    \/ token_aware_chunk_call
    \/ WhileBody

\* ======================================================================
\* Part IX.  RateLimitedBatchProcessor.acquire_rate_limit
\* (batch_manager.py 433-475): callers, the asyncio.Lock and the clock
\* ======================================================================
NCallers == 3
requests_per_minute == 1
\* 461, 469: `now - 60`, `60 - (now - oldest_request)`
rate_window == 60
\* the clock moves in steps of TickSeconds up to MaxLimiterClock
TickSeconds == 20
MaxLimiterClock == 140
Callers == 1..NCallers

\* lock: the caller whose `async with self.rate_limit_lock` block is open, 0
\* when the lock is free.  pc of a caller: idle (no call), lock (suspended in
\* rate_limit_lock.acquire()), sleep (suspended in asyncio.sleep inside the
\* block), returned.  wake: the time its sleep ends.
InitLimiter ==
    limiter = [now |-> 0,
               request_times |-> <<>>,
               lock |-> 0,
               pc |-> [c \in Callers |-> "idle"],
               wake |-> [c \in Callers |-> 0]]

\* 460-462: popleft while request_times[0] < now - 60
RECURSIVE DropOld(_, _)
DropOld(times, now) ==
    IF times # <<>> /\ Head(times) < now - rate_window
    THEN DropOld(Tail(times), now) ELSE times

\* 469: wait_time = 60 - (now - oldest_request)
wait_time(times, now) == rate_window - (now - Head(times))

\* the block under the lock (458-475) up to its await or its end: prune, then
\* either sleep with the lock held (465-471) or record the request and leave
\* the block, which releases the lock (474, __aexit__)
LockedBlock(c) ==
    LET now == limiter.now
        times == DropOld(limiter.request_times, now) IN
    IF Len(times) >= requests_per_minute /\ wait_time(times, now) > 0
    THEN [limiter EXCEPT !.request_times = times,
                         !.lock = c,
                         !.pc[c] = "sleep",
                         !.wake[c] = now + wait_time(times, now)]
    ELSE [limiter EXCEPT !.request_times = Append(times, now),
                         !.lock = 0,
                         !.pc[c] = "returned"]

\* `async with self.rate_limit_lock` (457): asyncio.Lock.acquire returns at
\* once when the lock is free and suspends the caller otherwise; the lock is
\* not reentrant
EnterLock(c) ==
    IF limiter.lock = 0 THEN LockedBlock(c) ELSE [limiter EXCEPT !.pc[c] = "lock"]

\* a coroutine calls acquire_rate_limit (455)
acquire_rate_limit(c) ==
    /\ limiter.pc[c] = "idle"
    /\ limiter.now + rate_window <= MaxLimiterClock
    /\ limiter' = EnterLock(c)
    /\ UNCHANGED <<taskVars, pipelineVars, chunker, upload>>

\* what a suspended caller waits for has happened: the lock is free
\* (rate_limit_lock.acquire(), 457) or the sleep is over (471)
Ready(c) ==
    \/ limiter.pc[c] = "lock" /\ limiter.lock = 0
    \/ limiter.pc[c] = "sleep" /\ limiter.now >= limiter.wake[c]

\* the event loop resumes the caller.  After acquire() it runs the block;
\* after the sleep it runs `return await self.acquire_rate_limit()` (472)
\* inside the block, so the lock is still held by this caller's block
Resumed(c) ==
    /\ Ready(c)
    /\ limiter' = IF limiter.pc[c] = "lock" THEN LockedBlock(c) ELSE EnterLock(c)
    /\ UNCHANGED <<taskVars, pipelineVars, chunker, upload>>

\* time.time() moves on
RateTick ==
    /\ limiter.now + TickSeconds <= MaxLimiterClock
    /\ limiter' = [limiter EXCEPT !.now = @ + TickSeconds]
    /\ UNCHANGED <<taskVars, pipelineVars, chunker, upload>>

NextLimiter ==
    \/ \E c \in Callers : acquire_rate_limit(c)
    \/ \E c \in Callers : Resumed(c)
    \/ RateTick

\* ======================================================================
\* Part X.  Validation of the uploaded objects: the route /rag/ingest-file
\* (api/routes/rag.py 106-252) and the job started by /rag/ingest-file-async
\* (rag.py 494-594), whose objects go through
\* StreamingJSONProcessor._process_item (streaming_parser.py 255-299)
\* ======================================================================
\* An object is known by the number of errors Draft7Validator.iter_errors
\* finds in it under the validation_schema of the request (0: it conforms).
\* Every object has a string under content_path.
MaxUploadItems == 3
MaxItemErrors == 21
\* rag.py 205: errors[:20]
error_report_limit == 20
ItemErrors == {0, 1, MaxItemErrors}
RECURSIVE UploadsOfLen(_)
UploadsOfLen(n) ==
    IF n = 0 THEN {<<>>}
    ELSE {Append(u, k) : u \in UploadsOfLen(n - 1), k \in ItemErrors}
Uploads == UNION {UploadsOfLen(n) : n \in 1..MaxUploadItems}

\* route, validator (the schema carries validation_schema), items: the
\* request; next: the object the job is at; emitted: ProcessedItems yielded
\* or texts handed to ingest_to_milvus; reported: validation errors in the
\* response; status: none, validation_errors (HTTP 400), ok, completed
InitUpload ==
    upload = [pc |-> "idle", route |-> "none", validator |-> FALSE, items |-> <<>>,
              next |-> 0, emitted |-> 0, reported |-> 0, status |-> "none"]

RECURSIVE SumErrors(_)
SumErrors(items) == IF items = <<>> THEN 0 ELSE Head(items) + SumErrors(Tail(items))

\* rag_ingest_file: 194-205 validate every object and answer 400 with the
\* first 20 errors; otherwise 208-252 chunk (strategy none) and ingest
rag_ingest_file(validator, items) ==
    /\ upload.pc = "idle"
    /\ upload' =
         IF validator /\ SumErrors(items) > 0
         THEN [pc |-> "done", route |-> "ingest-file", validator |-> validator,
               items |-> items, next |-> 0, emitted |-> 0,
               reported |-> min(SumErrors(items), error_report_limit),
               status |-> "validation_errors"]
         ELSE [pc |-> "done", route |-> "ingest-file", validator |-> validator,
               items |-> items, next |-> Len(items), emitted |-> Len(items),
               reported |-> 0, status |-> "ok"]
    /\ UNCHANGED <<taskVars, pipelineVars, chunker, limiter>>

\* rag_ingest_file_async (494-594): checks format and content_path of the
\* schema, saves the file and starts the job; validation_schema is not read
rag_ingest_file_async(validator, items) ==
    /\ upload.pc = "idle"
    /\ upload' = [pc |-> "job", route |-> "ingest-file-async", validator |-> validator,
                  items |-> items, next |-> 1, emitted |-> 0, reported |-> 0,
                  status |-> "none"]
    /\ UNCHANGED <<taskVars, pipelineVars, chunker, limiter>>

\* _process_item (255-299) on the next object: content is a non-blank string,
\* so one ProcessedItem is yielded (chunking strategy none)
process_item ==
    /\ upload.pc = "job"
    /\ upload.next <= Len(upload.items)
    /\ upload' = [upload EXCEPT !.next = @ + 1, !.emitted = @ + 1]
    /\ UNCHANGED <<taskVars, pipelineVars, chunker, limiter>>

\* the stream is at its end: the job completes
JobCompletes ==
    /\ upload.pc = "job"
    /\ upload.next > Len(upload.items)
    /\ upload' = [upload EXCEPT !.pc = "done", !.status = "completed"]
    /\ UNCHANGED <<taskVars, pipelineVars, chunker, limiter>>

NextUpload ==
    \/ \E validator \in BOOLEAN, items \in Uploads : rag_ingest_file(validator, items)
    \/ \E validator \in BOOLEAN, items \in Uploads : rag_ingest_file_async(validator, items)
    \/ process_item
    \/ JobCompletes

\* ============================================================ specifications
Init ==
    /\ InitTasks /\ InitBatch /\ InitEmbed /\ InitFailed /\ InitIngest /\ InitTracker
    /\ InitParser /\ InitChunk /\ InitLimiter /\ InitUpload
Next == NextTasks
Spec == Init /\ [][Next]_vars
SpecCapacity == Init /\ [][NextCapacity]_vars
SpecRetry == Init /\ [][NextRetry]_vars
SpecBatch == Init /\ [][NextBatch]_vars
SpecEmbed == Init /\ [][NextEmbed]_vars
SpecFailed == Init /\ [][NextFailed]_vars
SpecIngest == Init /\ [][NextIngest]_vars
SpecTracker == Init /\ [][NextTracker]_vars
\* the consumer's `async for` keeps asking the generator for the next item
\* SpecCapacity with every call in flight and every task running on: a
\* coroutine that can take a step is scheduled by the event loop
SpecQueue ==
    /\ Init /\ [][NextCapacity]_vars
    /\ WF_vars(\E c \in Calls : CapacityCallStep(c))
    /\ WF_vars(\E e \in Execs : CapacityTaskStep(e))
SpecShutdown == Init /\ [][NextShutdown]_vars
SpecParser == Init /\ [][NextParser]_vars /\ WF_vars(ReadChunk \/ SplitLine \/ RestOfBuffer)
\* a chunking function runs on without being suspended
SpecChunk == Init /\ [][NextChunk]_vars /\ WF_vars(WhileBody)
\* the event loop resumes a coroutine whose lock or sleep is ready, and time
\* passes
SpecLimiter ==
    /\ Init /\ [][NextLimiter]_vars
    /\ WF_vars(RateTick)
    /\ \A c \in Callers : WF_vars(Resumed(c))
SpecUpload == Init /\ [][NextUpload]_vars

\* ================================================================ properties
\* an execution of _process_task that is inside its try body
InProgress(e) == exec[e].pc \in BodyPcs /\ ~exec[e].must_cancel
NoTaskOf(j) == \A e \in Execs : exec[e].job # j
ReturnedTrue(c, op) == call[c].pc = "ret" /\ call[c].op = op /\ call[c].ok
RunningJobs == {j \in Jobs : rec[j].status = "running"}

\* C1: every Batch returned by add_item or finalize_batches has at most
\* CHUNK_LIMIT items and at most TOKEN_LIMIT tokens.
C1_BatchWithinLimits ==
    /\ Len(batcher.returned.items) <= CHUNK_LIMIT
    /\ batcher.returned.total_tokens <= TOKEN_LIMIT

\* C2: the number of jobs whose stored status is running never exceeds
\* max_concurrent_tasks.
C2_RunningWithinCap == Cardinality(RunningJobs) <= max_concurrent_tasks

\* C3: two executions of the same job id are never in progress at the same time.
C3_OneExecutionPerJob ==
    \A e, f \in Execs : e # f /\ InProgress(e) /\ InProgress(f) => Job(e) # Job(f)

\* C4: when cancel_task returns True the stored status of the job is cancelled.
C4_CancelledOnReturn ==
    \A c \in Calls : ReturnedTrue(c, "cancel") => rec[call[c].job].status = "cancelled"

\* C5: when pause_task returns True the stored status of the job is paused.
C5_PausedOnReturn ==
    \A c \in Calls : ReturnedTrue(c, "pause") => rec[call[c].job].status = "paused"

\* a True return of pause_task / resume_task follows a read of running / paused
C6_TrueOnlyFromLegalState ==
    \A c \in Calls :
        /\ ReturnedTrue(c, "pause") => call[c].seen = "running"
        /\ ReturnedTrue(c, "resume") => call[c].seen = "paused"
\* after any other read the call's next step returns False and changes nothing
C6_IllegalLeavesUnchanged ==
    \A c \in Calls :
        /\ call[c].pc = "get" /\ call'[c].pc # "get"
        /\ \/ call[c].op = "pause" /\ call[c].seen # "running"
           \/ call[c].op = "resume" /\ call[c].seen # "paused"
        => /\ call'[c].pc = "ret" /\ ~call'[c].ok
           /\ UNCHANGED <<rec, queue, running_tasks, exec, active_tasks>>
\* C6: pause_task returns True only if the status it read is running and
\* resume_task only if it is paused; after reading any other status, or no
\* record, the call returns False, and that step leaves the job records, the
\* queue, the handles and the tasks as they were.
C6_PauseResumeGuarded == [](C6_TrueOnlyFromLegalState) /\ [][C6_IllegalLeavesUnchanged]_vars
\* a pause or resume was refused for a job the manager knows
C6_Refused ==
    \E c \in Calls : /\ call[c].pc = "ret" /\ ~call[c].ok
                     /\ call[c].op \in {"pause", "resume"}
                     /\ call[c].seen \notin {"none", "running", "paused"}

\* C7: items_processed of the job record, of the checkpoint and of the progress
\* snapshot never decreases.
C7_ItemsStep ==
    \A j \in Jobs :
        /\ rec'[j].items >= rec[j].items
        /\ ckpt[j].has /\ ckpt'[j].has => ckpt'[j].items >= ckpt[j].items
        /\ prog'[j] >= prog[j]
C7_ItemsNeverDecrease == [][C7_ItemsStep]_vars

\* C8: once the execution of a job has ended and its status is completed, the
\* job has no checkpoint.
C8_NoCheckpointAfterCompleted ==
    \A j \in Jobs : rec[j].status = "completed" /\ NoTaskOf(j) => ~ckpt[j].has

\* C9 as stated: a checkpoint is deleted only for a job that has reached completed.
CheckpointDeleted(j) == ckpt[j].has /\ ~ckpt'[j].has
C9_DeletedOnlyWhenCompleted ==
    [][\A j \in Jobs : CheckpointDeleted(j) => hist.ever_completed[j]]_vars
\* C9: the task manager deletes a checkpoint only for a job whose record it has
\* stored as completed; cleanup_old_checkpoints deletes every checkpoint older
\* than its cutoff, whatever the status of the job.
C9_DeletedWhenCompletedOrOld ==
    [][\A j \in Jobs : CheckpointDeleted(j) =>
            \/ hist.ever_completed[j]
            \/ ckpt[j].aged /\ exec' = exec /\ rec' = rec]_vars
\* the checkpoint of a failed job, never completed, is gone after a cleanup
C9_FailedJobCheckpointGone ==
    \E j \in Jobs : /\ rec[j].status = "failed" /\ ~hist.ever_completed[j]
                    /\ ~ckpt[j].has /\ NoTaskOf(j)
                    /\ \A c \in Calls : call[c].pc = "idle"

\* C10: an ingestion attempt that starts from a checkpoint does not embed or
\* upsert again the items counted in the checkpoint's items_processed.
C10_ContinuesFromCheckpoint ==
    \A e \in Execs :
        exec[e].pc = "ingest" /\ exec[e].pos >= 1
        => (exec[e].pos - 1) * batch_size >= RecoveredItems(exec[e].rc)

\* the texts of the whole file
AllTexts == 1..NBatches

StoppedWhileRunning(e) ==
    \/ rec[Job(e)].status = "paused"
    \/ rec[Job(e)].status = "cancelled" /\ milvus[Job(e)] # {}
\* C12: when the execution of a job stopped while running leaves `except
\* asyncio.CancelledError` for its finally block, the store holds a checkpoint
\* of the job.
C12_CheckpointOnStop ==
    [][\A e \in Execs : /\ exec[e].pc = "cancel_finish" /\ exec'[e].pc = "fin_srem"
                         /\ StoppedWhileRunning(e)
                         => ckpt'[Job(e)].has]_vars

\* C13: an ingestion that has processed n items has a checkpoint whose
\* items_processed is at most batch_size behind n.
C13_CheckpointEveryInterval ==
    \A e \in Execs :
        exec[e].pc = "ingest" /\ exec[e].pos >= 1
        => /\ ckpt[Job(e)].has
           /\ exec[e].pos * batch_size - ckpt[Job(e)].items <= batch_size

\* C14: one execution attempts ingestion at most max_retries + 1 times; it
\* goes on to a further attempt only while handling a recoverable error; after
\* a non-recoverable error it is in the failure handler, which stores failed.
C14_RetryOnlyRecoverable ==
    \A e \in Execs :
        /\ exec[e].retry + 1 <= max_retries + 1
        /\ exec[e].pc = "retry_ckpt" => exec[e].err = "recoverable"
        /\ exec[e].err = "fatal" => exec[e].pc \in FailPcs
        /\ exec[e].pc \in {"fail_store", "fail_ckpt"} => rec[Job(e)].status = "failed"
\* the fourth attempt met a recoverable error and the execution failed
C14_RetriesExhausted ==
    \E e \in Execs : /\ exec[e].pc = "fail_store" /\ exec[e].err = "recoverable"
                      /\ rec[Job(e)].status = "failed"

C16_NoOversizeItemEmitted ==
    \A i \in 1..Len(batcher.returned.items) : batcher.returned.items[i].tokens <= TOKEN_LIMIT

\* C17: the items of the Batches returned so far, in the order returned,
\* followed by the items still held, are the non-blank texts handed in, in
\* the order handed in (after finalize_batches nothing is held); no Batch
\* returned is empty.
C17_BatchesPreserveInput ==
    /\ batcher.emitted \o batcher.current_batch = batcher.input
    /\ batcher.returned # NoBatch => batcher.returned.items # <<>>
\* blank and non-blank texts went in, several Batches came out, the last one
\* from finalize_batches
C17_AllFlushed ==
    /\ batcher.batch_counter >= 2
    /\ batcher.current_batch = <<>> /\ batcher.returned # NoBatch
    /\ batcher.calls > Len(batcher.input)
    /\ Len(batcher.emitted) >= 3
    /\ batcher.emitted = batcher.input

\* C18: a Batch that process_stream_to_batches yields has passed the
\* hard-limit tests of validate_batch.
C18_InvalidBatchNotYielded ==
    process_stream_yields(batcher.returned, HardLimitErrors(batcher.returned) = {})
    => HardLimitErrors(batcher.returned) = {}

\* C19: one call of embed_with_retry invokes the provider at most
\* embedder_max_retries + 1 times; it sleeps towards a further attempt only
\* after an error that _should_retry accepts; an error that _should_retry
\* rejects is raised by the attempt that met it, the first attempt included;
\* the error raised is the one of the last attempt, and it is raised when the
\* last of the embedder_max_retries + 1 attempts fails.
C19_AtMostFourAttempts ==
    /\ embedder.calls <= embedder_max_retries + 1
    /\ embedder.pc = "sleeping" => should_retry(last_exception)
    /\ embedder.pc \in {"sleeping", "raised"} =>
          /\ Len(embedder.failed) = embedder.calls
          /\ \A i \in 1..(Len(embedder.failed) - 1) : should_retry(embedder.failed[i])
    /\ embedder.failed # <<>> /\ ~should_retry(last_exception) => embedder.pc = "raised"
    /\ Len(embedder.failed) = embedder_max_retries + 1 => embedder.pc = "raised"
\* three errors were retried and the fourth attempt failed as well
C19_FourthAttemptFailed ==
    /\ embedder.pc = "raised" /\ embedder.calls = embedder_max_retries + 1
    /\ should_retry(last_exception)

\* C20: an attempt that fails with an error of a retryable scenario is followed
\* by a further attempt unless it was the last one allowed, and an error of a
\* non-retryable scenario is raised at once.
C20_ClassifiedAsSpecified ==
    /\ embedder.pc = "raised" /\ embedder.calls <= embedder_max_retries
       => ~last_exception.retryable
    /\ embedder.pc = "sleeping" => last_exception.retryable

\* C21: while an execution handles an error that came out of batch
\* processing, a failed-batch record of its job is stored.
C21_FailedBatchSaved ==
    \A e \in Execs : exec[e].err # "none" => get_failed_batches(Job(e)) # {}

\* the payload of no record is handed out more than max_retries times
C22_HandedOutAtMostMax ==
    \A p \in 1..MaxSaves : failed_batches.handed[p] <= MaxBatchRetries
\* a call of retry_failed_batch on a stored record below the cap returns the
\* payload and adds one to retry_count; any other call returns nothing and
\* leaves every record as it was
C22_RetryStep ==
    /\ failed_batches'.last.op = "retry" /\ failed_batches' # failed_batches
    /\ failed_batches'.now = failed_batches.now
    =>
        LET id == failed_batches'.last.id
            before == failed_batches.store[id]
        IN  IF before.has /\ before.retry_count < MaxBatchRetries
            THEN /\ failed_batches'.last.result = before.batch_data
                 /\ failed_batches'.store =
                      [failed_batches.store EXCEPT ![id].retry_count = before.retry_count + 1]
            ELSE /\ failed_batches'.last.result = 0
                 /\ failed_batches'.store = failed_batches.store
\* C22: retry_failed_batch(id, max_retries) returns the payload and adds one
\* to retry_count while retry_count < max_retries, returns nothing and changes
\* nothing once retry_count has reached max_retries, so that a payload is
\* handed out at most max_retries times.
C22_RetryCapped == [](C22_HandedOutAtMostMax) /\ [][C22_RetryStep]_vars
\* a record at the cap was asked for again and nothing was returned
C22_RefusedAtCap ==
    /\ failed_batches.last.op = "retry" /\ failed_batches.last.result = 0
    /\ failed_batches.store[failed_batches.last.id].has
    /\ failed_batches.store[failed_batches.last.id].retry_count = MaxBatchRetries
    /\ failed_batches.handed[failed_batches.store[failed_batches.last.id].batch_data]
          = MaxBatchRetries

\* C23: while none of a job's failed batches has been marked recovered,
\* get_failed_batches returns as many records as save_failed_batch was called
\* for the job.
C23_OneRecordPerSave ==
    \A j \in Jobs : failed_batches.recovered[j] = 0
                     => Cardinality(get_failed_batches(j)) = failed_batches.saved[j]

\* C27: once the execution of a paused job has ended, the current_phase of
\* its progress snapshot is paused.
C27_PausedPhase ==
    \A j \in Jobs : rec[j].status = "paused" /\ NoTaskOf(j) /\ phase[j] # "none"
                     => phase[j] = "paused"

\* C25: when an execution leaves the `except Exception` handler (an error
\* other than cancellation ended it), the job record is the one the handler
\* stored, status failed together with the error record (506-515), and a
\* checkpoint holding the record's items_processed exists.
C25_FailureRecorded ==
    [][\A e \in Execs :
          exec[e].pc = "fail_ckpt" /\ exec'[e].pc = "fin_srem" /\ exec'[e].job = exec[e].job
          => /\ rec'[Job(e)].status = "failed"
             /\ exec[e].err # "none"
             /\ ckpt'[Job(e)] = [has |-> TRUE, items |-> rec'[Job(e)].items, aged |-> FALSE]]_vars

\* C26: the embeddings_generated stored for a job that completed equals the
\* number of chunks made from its file, partial inserts included.
C26_EmbeddingsEqualChunks ==
    ingest.pc = "completed" => ingest.embeddings_generated = ingest.total_chunks_created

\* C28: phase_history of a job only grows: no step removes, replaces or
\* reorders the entries recorded so far, an ended phase stays ended, and a
\* step that appends a phase leaves the phase before it ended.
C28_PhaseHistoryAppendOnly ==
    [][LET old == tracker.phase_history
           new == tracker'.phase_history
       IN  /\ Len(new) >= Len(old)
           /\ \A i \in 1..Len(old) : /\ new[i].phase = old[i].phase
                                     /\ old[i].ended => new[i].ended
           /\ Len(new) > Len(old) /\ Len(old) > 0 => new[Len(old)].ended]_vars

\* C29: after finish_tracking(success=True) on a task whose expected total is
\* known, the overall percentage reported is 100.
C29_HundredPercentWhenFinished ==
    tracker.last = "finish_success" /\ tracker.total_items_expected > 0
    => overall_percentage = 100

\* the lines of a file: the pieces between its newlines
RECURSIVE LinesOf(_)
LinesOf(f) ==
    LET i == FirstNewline(f)
    IN  IF i = 0 THEN <<f>>
        ELSE <<SubSeq(f, 1, i - 1)>> \o LinesOf(SubSeq(f, i + 1, Len(f)))
NonBlankLines(f) == {i \in 1..Len(LinesOf(f)) : \E k \in 1..Len(LinesOf(f)[i]) : LinesOf(f)[i][k] # " "}
ValidLines(f) == {i \in NonBlankLines(f) : strip(LinesOf(f)[i]) = <<"{", "}">>}

\* C30: once an NDJSON stream is read to its end, the items yielded are those
\* of its valid lines, in order, and errors_encountered counts its unparseable
\* lines; the stream always reaches its end.
C30_Outcome ==
    parser.pc = "done"
    => /\ parser.yielded = [i \in 1..Cardinality(ValidLines(parser.file)) |-> i - 1]
       /\ parser.items_processed = Cardinality(ValidLines(parser.file))
       /\ parser.errors_encountered =
             Cardinality(NonBlankLines(parser.file) \ ValidLines(parser.file))
C30_InvalidLinesSkipped ==
    [](C30_Outcome) /\ (parser.pc = "read" ~> parser.pc = "done")
\* a stream with a valid line after an unparseable one was read to its end
C30_ValidAfterInvalid ==
    /\ parser.pc = "done"
    /\ parser.errors_encountered >= 1
    /\ \E i \in ValidLines(parser.file) :
          \E k \in NonBlankLines(parser.file) \ ValidLines(parser.file) : k < i

\* C24: once pause_task or cancel_task on a running job has returned True, no
\* execution of the job is still on its way to ingestion: only a batch that
\* was in flight when the call returned may still be upserted.
C24_NoLaterBatch ==
    \A c \in Calls :
        (ReturnedTrue(c, "pause") \/ ReturnedTrue(c, "cancel")) /\ call[c].seen = "running"
        => \A e \in Execs :
              Job(e) = call[c].job /\ ~exec[e].must_cancel
              => exec[e].pc \notin {"created", "get_task", "start_tracking", "store_running",
                                   "retry_ckpt"}

\* C37: a pause_task, resume_task or cancel_task call that finds the job
\* completed or failed leaves its status as it is.
C37_TerminalAbsorbing ==
    [][\A c \in Calls :
          /\ call[c].pc = "get" /\ call[c].op \in {"pause", "resume", "cancel"}
          /\ call[c].seen \in {"completed", "failed"}
          /\ rec[call[c].job].status = call[c].seen
          /\ call'[c] # call[c]
          => rec'[call[c].job].status = call[c].seen]_vars

\* C36: while an execution is inside the try body of _process_task and has
\* not been cancelled, running_tasks holds its handle under the job id and
\* the id is in active_tasks.
C36_HandleOwned ==
    \A e \in Execs :
        InProgress(e) => running_tasks[Job(e)] = e /\ Job(e) \in active_tasks

\* C38: once shutdown() has returned, no execution of a job exists that has
\* still to run or is running its try body.
C38_NothingAfterShutdown ==
    \A c \in Calls :
        call[c].op = "shutdown" /\ call[c].pc = "down"
        => \A e \in Execs : exec[e].pc # "created" /\ ~InProgress(e)

\* C35: a job id that is in task_queue is eventually taken out of it, every
\* execution that starts running to its end.
C35_QueuedEventuallyDequeued ==
    \A j \in Jobs :
        (\E i \in 1..Len(queue) : queue[i] = j) ~> (\A i \in 1..Len(queue) : queue[i] # j)


\* C39: get_failed_batches(job) returns only records that save_failed_batch
\* stored for that very job id, whatever the ids of the jobs are - also when
\* one id is another id followed by an underscore and a suffix.
C39_OnlyOwnFailedBatches ==
    \A j \in Jobs : \A id \in FailedBatchIds :
        failed_batches.store[id].has
          /\ failed_batches.store[id] \in get_failed_batches(j)
        => id[1] = j

\* the same for ids made by start_task itself ("ingest_" and hex digits)
C39_DefaultIdsIsolated ==
    ~failed_batches.custom => C39_OnlyOwnFailedBatches


\* the window a token-aware chunker owes as its i-th chunk, in characters:
\* windows of max_tokens tokens that advance by max_tokens - overlap_tokens
TokenWindow(i) ==
    <<(i - 1) * (max_tokens - overlap_tokens) * chunker.chars_per_token,
      min(chunker.text_len,
          ((i - 1) * (max_tokens - overlap_tokens) + max_tokens) * chunker.chars_per_token)>>

\* C32: with strategy token_aware, max_tokens = 1000 and overlap_tokens = 100,
\* the chunks of a document are windows of at most 1000 tokens that advance by
\* 900 tokens, the last one ending at the end of the document; a document of
\* 5000 tokens gives exactly 6 chunks.
C32_TokenAwareWindows ==
    chunker.pc = "returned" /\ chunker.fn = "_token_aware_chunk"
    => /\ \A i \in 1..Len(chunker.chunks) : chunker.chunks[i] = TokenWindow(i)
       /\ chunker.chunks[Len(chunker.chunks)][2] = chunker.text_len
       /\ chunker.tokens = doc_tokens => Len(chunker.chunks) = 6

\* the chunks, in order, leave no gap and end at the end of the text
ChunksCover ==
    /\ chunker.chunks # <<>>
    /\ chunker.chunks[1][1] = 0
    /\ \A i \in 1..(Len(chunker.chunks) - 1) :
          chunker.chunks[i + 1][1] <= chunker.chunks[i][2]
    /\ chunker.chunks[Len(chunker.chunks)][2] = chunker.text_len

C33_Covered ==
    chunker.pc = "returned" /\ chunker.text_len > 0
      /\ chunker.fn \in {"_recursive_chunk", "chunk_text"}
    => ChunksCover

\* C33: for every text, max_chars >= 1 and overlap >= 0, also overlap >=
\* max_chars, recursive chunking returns, and its chunks cover the text in
\* order with the last chunk ending at the end of the text.
C33_TerminatesAndCovers ==
    /\ [](C33_Covered)
    /\ (chunker.pc = "loop" /\ chunker.fn \in {"_recursive_chunk", "chunk_text"})
          ~> (chunker.pc = "returned")

\* the same of _recursive_chunk alone
C33_StreamingChunkerTerminates ==
    /\ [](C33_Covered)
    /\ (chunker.pc = "loop" /\ chunker.fn = "_recursive_chunk") ~> (chunker.pc = "returned")

\* C34: every call of acquire_rate_limit returns in the end, whether it had
\* to wait for the oldest request to leave the window or for the lock.
C34_EveryCallReturns ==
    \A c \in Callers : (limiter.pc[c] # "idle") ~> (limiter.pc[c] = "returned")

\* C31: when the schema carries a validator and an uploaded object violates
\* it, nothing is emitted, and the request or job ends with a schema error
\* that reports at least one and at most 20 validation errors.
C31_InvalidObjectFailsJob ==
    upload.validator /\ SumErrors(upload.items) > 0
    => /\ upload.emitted = 0
       /\ upload.pc = "done" => /\ upload.status = "validation_errors"
                                /\ upload.reported \in 1..error_report_limit

\* the same of the route /rag/ingest-file alone
C31_IngestFileValidates ==
    upload.route = "ingest-file" => C31_InvalidObjectFailsJob

====
